---- MODULE Spec2Model ----
(***************************************************************************)
(* A model of backplane-tools: the install directory tree, the latest/     *)
(* symlink farm, the per-tool Install/Remove/InstalledVersion methods and  *)
(* the install / upgrade commands that drive them.                         *)
(*                                                                         *)
(* Paths are sequences of names relative to base.InstallDir: <<>> is the   *)
(* root install directory, <<"latest">> the latest directory,              *)
(* <<tool, tag>> a versioned directory.  The symlinks of latest/ are kept  *)
(* in the map links (NoLink = no entry of that name).                      *)
(***************************************************************************)
EXTENDS Integers, Sequences, FiniteSets, TLC

VARIABLES
    files,              \* set of paths (directories and files) that exist under the root
    links,              \* latest/<name> -> target path, or NoLink
    latestVersion,      \* Default.latestVersion memo of each tool ("" = unset)
    installedVersion,   \* Default.installedVersion memo of each tool ("" = unset)
    toolMap,            \* the registered tools
    last                \* outcome of the last operation (what it returned / printed)

vars == <<files, links, latestVersion, installedVersion, toolMap, last>>

-----------------------------------------------------------------------------
(* Bounds *)

MaxAssets == 3          \* longest asset list of a release
NumVersions == 2        \* number of distinct release tags a source may report

VersionNames == <<"v1", "v2", "v3", "v4">>
Versions == {VersionNames[i] : i \in 1..NumVersions}

-----------------------------------------------------------------------------
(* The host, the tools and the names that occur *)

GOOS == "linux"
GOARCH == "amd64"

Tools == {"rosa", "ocm", "osdctl", "aws"}
SelfName == "backplane-tools"
ExeNames == Tools \cup {"aws_completer", SelfName}

NoLink == <<>>
NoErr == ""

InstallDir == <<>>
LatestDir == <<"latest">>

\* filepath.Join(dir, elem): an empty element is dropped
Join(p, e) == IF e = "" THEN p ELSE Append(p, e)

ToolDir(t) == Join(InstallDir, t)
SymlinkPath(t) == t
symlinkCompleterPath == "aws_completer"

-----------------------------------------------------------------------------
(* Filesystem primitives *)

IsPrefix(p, q) == Len(p) <= Len(q) /\ SubSeq(q, 1, Len(p)) = p

Prefixes(p) == {SubSeq(p, 1, n) : n \in 0..Len(p)}

\* os.MkdirAll: the directory and every missing parent
MkdirAll(fs, p) == fs \cup Prefixes(p)

\* a path that leaves the root install directory: it starts with ".."
Outside(p) == p # <<>> /\ Head(p) = ".."

\* filepath.Clean as filepath.Join applies it: a ".." element takes away the
\* element before it, and stays when there is none to take away
RECURSIVE CleanOnto(_, _)
CleanOnto(done, rest) ==
    IF rest = <<>> THEN done
    ELSE IF Head(rest) = ".." /\ done # <<>> /\ done[Len(done)] # ".."
         THEN CleanOnto(SubSeq(done, 1, Len(done) - 1), Tail(rest))
    ELSE CleanOnto(Append(done, Head(rest)), Tail(rest))

Clean(p) == CleanOnto(<<>>, p)

\* os.RemoveAll: the path and everything below it
RemoveAll(fs, p) == {q \in fs : ~IsPrefix(p, q) \/ (Outside(q) /\ ~Outside(p))}

\* os.Create / os.WriteFile of a file whose directory exists
CreateFile(fs, p) == fs \cup {p}

\* os.Rename of a directory tree
Rename(fs, from, to) ==
    {q \in fs : ~IsPrefix(from, q)} \cup
    {to \o SubSeq(q, Len(from) + 1, Len(q)) : q \in {x \in fs : IsPrefix(from, x)}}

\* utils.FileExists
FileExists(fs, p) == p \in fs

\* filepath.EvalSymlinks(latest/<name>) succeeds iff the link exists and its
\* target exists
EvalSymlinksOk(fs, lk, name) == lk[name] # NoLink /\ lk[name] \in fs

-----------------------------------------------------------------------------
(* Asset names.  strings.Contains and strings.ToLower are tabulated for    *)
(* the names a release may carry.                                          *)

RosaPool == <<"rosa_linux_amd64", "rosa_linux_amd64.sha256", "rosa_Linux_x86_64",
             "rosa_Linux_x86_64.sha256", "rosa_darwin_amd64">>
OcmPool == <<"ocm-linux-amd64", "ocm-linux-amd64.sha256", "ocm-linux-amd64-fips",
            "ocm-linux-amd64.sha256.sig", "ocm-darwin-amd64">>
OsdctlPool == <<"sha256sum.txt", "osdctl_Linux_x86_64.tar.gz", "osdctl_Linux_x86_64.zip",
               "osdctl_Darwin_x86_64.tar.gz", "osdctl_Linux_arm64.tar.gz">>

\* the asset names the releases of a tool are drawn from
AssetPool(t) ==
    CASE t = "rosa" -> RosaPool
      [] t = "ocm" -> OcmPool
      [] t = "osdctl" -> OsdctlPool
      [] OTHER -> <<>>

\* strings.ToLower(name)
ToLower(n) ==
    CASE n = "rosa_Linux_x86_64" -> "rosa_linux_x86_64"
      [] n = "rosa_Linux_x86_64.sha256" -> "rosa_linux_x86_64.sha256"
      [] n = "osdctl_Linux_x86_64.tar.gz" -> "osdctl_linux_x86_64.tar.gz"
      [] n = "osdctl_Linux_x86_64.zip" -> "osdctl_linux_x86_64.zip"
      [] n = "osdctl_Darwin_x86_64.tar.gz" -> "osdctl_darwin_x86_64.tar.gz"
      [] n = "osdctl_Linux_arm64.tar.gz" -> "osdctl_linux_arm64.tar.gz"
      [] n = "Widget_Linux_x86_64" -> "widget_linux_x86_64"
      [] n = "Tool-Linux-X86_64" -> "tool-linux-x86_64"
      [] n = "Tool-MAC-arm64" -> "tool-mac-arm64"
      [] OTHER -> n

\* the search terms that are substrings of the name
Terms(n) ==
    CASE n = "rosa_linux_amd64" -> {"linux", "amd64"}
      [] n = "rosa_linux_amd64.sha256" -> {"linux", "amd64", "sha256", ".sha256"}
      [] n = "rosa_Linux_x86_64" -> {"Linux", "x86_64"}
      [] n = "rosa_linux_x86_64" -> {"linux", "x86_64"}
      [] n = "rosa_Linux_x86_64.sha256" -> {"Linux", "x86_64", "sha256", ".sha256"}
      [] n = "rosa_linux_x86_64.sha256" -> {"linux", "x86_64", "sha256", ".sha256"}
      [] n = "rosa_darwin_amd64" -> {"darwin", "amd64"}
      [] n = "ocm-linux-amd64" -> {"linux", "amd64"}
      [] n = "ocm-linux-amd64.sha256" -> {"linux", "amd64", "sha256", ".sha256"}
      [] n = "ocm-linux-amd64-fips" -> {"linux", "amd64"}
      [] n = "ocm-linux-amd64.sha256.sig" -> {"linux", "amd64", "sha256", ".sha256"}
      [] n = "ocm-darwin-amd64" -> {"darwin", "amd64"}
      [] n = "sha256sum.txt" -> {"sha256"}
      [] n = "osdctl_Linux_x86_64.tar.gz" -> {"Linux", "x86_64", ".tar.gz"}
      [] n = "osdctl_linux_x86_64.tar.gz" -> {"linux", "x86_64", ".tar.gz"}
      [] n = "osdctl_Linux_x86_64.zip" -> {"Linux", "x86_64"}
      [] n = "osdctl_linux_x86_64.zip" -> {"linux", "x86_64"}
      [] n = "osdctl_Darwin_x86_64.tar.gz" -> {"Darwin", "x86_64", ".tar.gz"}
      [] n = "osdctl_darwin_x86_64.tar.gz" -> {"darwin", "x86_64", ".tar.gz"}
      [] n = "osdctl_Linux_arm64.tar.gz" -> {"Linux", "arm64", ".tar.gz"}
      [] n = "osdctl_linux_arm64.tar.gz" -> {"linux", "arm64", ".tar.gz"}
      [] n = "widget-linux-amd64" -> {"linux", "amd64"}
      [] n = "widget-linux-amd64.sha256" -> {"linux", "amd64", "sha256", ".sha256"}
      [] n = "widget-darwin-amd64" -> {"darwin", "amd64"}
      [] n = "widget-darwin-amd64.sha256" -> {"darwin", "amd64", "sha256", ".sha256"}
      [] n = "widget-linux-arm64" -> {"linux", "arm64"}
      [] n = "Widget_Linux_x86_64" -> {"Linux", "x86_64"}
      [] n = "widget_linux_x86_64" -> {"linux", "x86_64"}
      [] n = "checksums.txt" -> {"checksums.txt"}
      [] n = "backplane-tools_linux_amd64.tar.gz" -> {"linux", "amd64", ".tar.gz"}
      [] n = "backplane-tools_darwin_amd64.tar.gz" -> {"darwin", "amd64", ".tar.gz"}
      [] n = "tool-x86_64" -> {"x86_64"}
      [] n = "tool-amd64" -> {"amd64"}
      [] n = "tool-mac" -> {"mac"}
      [] n = "tool-darwin" -> {"darwin"}
      [] n = "Tool-Linux-X86_64" -> {"Linux", "X86_64"}
      [] n = "tool-linux-x86_64" -> {"linux", "x86_64"}
      [] n = "Tool-MAC-arm64" -> {"MAC", "arm64"}
      [] n = "tool-mac-arm64" -> {"mac", "arm64"}
      [] OTHER -> {}

\* strings.Contains(name, term)
Contains(n, term) == term \in Terms(n)

\* utils.ContainsAll / utils.ContainsAny
ContainsAll(n, terms) == \A x \in terms : Contains(n, x)
ContainsAny(n, terms) == \E x \in terms : Contains(n, x)

\* the names of an architecture without the well-known alternatives
ArchAliasesPlain(goarch) == {goarch}

\* the switch of utils.GetArchAliases / utils.GetOSAliases on a host's
\* runtime.GOARCH / runtime.GOOS
ArchAliases(goarch) == IF goarch = "amd64" THEN {"amd64", "x86_64"} ELSE {goarch}
OSAliases(goos) == IF goos = "darwin" THEN {"darwin", "mac"} ELSE {goos}

\* utils.GetArchAliases / utils.GetOSAliases
GetArchAliases == ArchAliases(GOARCH)
GetOSAliases == OSAliases(GOOS)

\* FindAssetsForOS / FindAssetsForArch on a host of the given OS / architecture
FindAssetsForOSOn(goos, assets) ==
    LET Keep(a) == ContainsAny(ToLower(a), OSAliases(goos)) IN SelectSeq(assets, Keep)

FindAssetsForArchOn(goarch, assets) ==
    LET Keep(a) == ContainsAny(ToLower(a), ArchAliases(goarch)) IN SelectSeq(assets, Keep)

FindAssetsForOS(assets) == FindAssetsForOSOn(GOOS, assets)

FindAssetsForArch(assets) == FindAssetsForArchOn(GOARCH, assets)

\* a search that keeps what matches the architecture or the OS
FindAssetsForArchOrOS(assets) ==
    LET Keep(a) == \/ ContainsAny(ToLower(a), GetArchAliases)
                   \/ ContainsAny(ToLower(a), GetOSAliases)
    IN SelectSeq(assets, Keep)

FindAssetsForArchAndOS(assets) == FindAssetsForOS(FindAssetsForArch(assets))

FindAssetsContaining(terms, assets) ==
    LET Keep(a) == ContainsAll(a, terms) IN SelectSeq(assets, Keep)

FindAssetsExcluding(terms, assets) ==
    LET Keep(a) == ~ContainsAny(a, terms) IN SelectSeq(assets, Keep)

-----------------------------------------------------------------------------
(* Downloads and checksums *)

Contents == {"c1", "c2"}

\* utils.Sha256sum of a file with the given content (hex digest)
Sha256sum(c) == IF c = "c1" THEN "aa11" ELSE "bb22"

Digests == {Sha256sum(c) : c \in Contents}

\* the element of a one-element set.  Only({F(x) : x \in {v}}) is F(v) with
\* the statement that computes v run once, whatever number of later
\* statements read its result
Only(s) == CHOOSE x \in s : TRUE

\* Source.downloadReleaseAsset: the asset is written to <dir>/<name> when
\* the source delivers it (got: the assets that exist at the source)
downloadReleaseAsset(fs, asset, dir, got) ==
    IF asset \in got THEN [files |-> CreateFile(fs, Join(dir, asset)), err |-> FALSE]
    ELSE [files |-> fs, err |-> TRUE]

\* the loop of DownloadReleaseAssets: downloadErrors collects the failures
RECURSIVE DownloadLoop(_, _, _, _, _)
DownloadLoop(fs, assets, dir, got, downloadErrors) ==
    IF assets = <<>> THEN [files |-> fs, downloadErrors |-> downloadErrors]
    ELSE Only({DownloadLoop(r.files, Tail(assets), dir, got,
                            IF r.err THEN Append(downloadErrors, Head(assets))
                            ELSE downloadErrors)
               : r \in {downloadReleaseAsset(fs, Head(assets), dir, got)}})

\* the loop left at the first asset that fails
RECURSIVE DownloadLoopFailFast(_, _, _, _, _)
DownloadLoopFailFast(fs, assets, dir, got, downloadErrors) ==
    IF assets = <<>> THEN [files |-> fs, downloadErrors |-> downloadErrors]
    ELSE Only({IF r.err
               THEN [files |-> r.files, downloadErrors |-> Append(downloadErrors, Head(assets))]
               ELSE DownloadLoopFailFast(r.files, Tail(assets), dir, got, downloadErrors)
               : r \in {downloadReleaseAsset(fs, Head(assets), dir, got)}})

\* a download that gives up at the first failure
DownloadReleaseAssetsFailFast(fs, assets, dir, got) ==
    Only({[files |-> r.files, err |-> Len(r.downloadErrors) # 0, failed |-> r.downloadErrors]
          : r \in {DownloadLoopFailFast(fs, assets, dir, got, <<>>)}})

\* Source.DownloadReleaseAssets: every asset is attempted; the result is the
\* tree, whether an error is returned, and the failures it joins
DownloadReleaseAssets(fs, assets, dir, got) ==
    Only({[files |-> r.files, err |-> Len(r.downloadErrors) # 0, failed |-> r.downloadErrors]
          : r \in {DownloadLoop(fs, assets, dir, got, <<>>)}})

\* A checksum file is a sequence of lines, a line the sequence of its
\* whitespace-separated fields (strings.Fields).
Fields(line) == line

SeqRange(s) == {s[i] : i \in 1..Len(s)}

\* the words other than the key itself that the key matches when it is read
\* as a regular expression: a "." of the key stands for any character
DotVariants(key) ==
    IF key = "rosa_linux_amd64.tar.gz" THEN {"rosa_linux_amd64-tar.gz"} ELSE {}

\* regexp "(^|\\s)" + key + "($|\\s)" on a word of a line
MatchesKey(key, word) == word = key \/ word \in DotVariants(key)

\* utils.GetLineInFileMatchingKey: the first line in which the key, compiled
\* as a regular expression, matches between whitespace or line ends;
\* found = FALSE is the "no match found" error
GetLineInFileMatchingKey(file, key) ==
    LET hits == {i \in 1..Len(file) : \E w \in SeqRange(file[i]) : MatchesKey(key, w)} IN
    IF hits = {} THEN [found |-> FALSE, line |-> <<>>]
    ELSE [found |-> TRUE, line |-> file[CHOOSE i \in hits : \A j \in hits : i <= j]]

\* the checksum files a source may deliver next to the asset named key
SumFiles(key) ==
    {<<<<d, key>>>> : d \in Digests} \cup
    {<<<<d, "other">>, <<d, key>>>> : d \in Digests} \cup
    {<<<<d, "other">>, <<e, key>>>> : d \in Digests, e \in Digests} \cup
    {<<>>, <<<<"aa11">>>>, <<<<"aa11", "other">>>>, <<<<"aa11", key, "extra">>>>}

-----------------------------------------------------------------------------
(* What the outside world answers to one Install: the source and the       *)
(* filesystem.                                                             *)
(*   reach    the source answers the release / tag query                   *)
(*   tag      the latest release tag                                       *)
(*   assets   the asset names of the release, in order                     *)
(*   got      the assets whose download succeeds                           *)
(*   content  the bytes of the primary asset                               *)
(*   sumfile  the checksum file                                            *)
(*   entries  the entries of the archive                                   *)
(*   fault    the filesystem call that fails ("none": no call fails)       *)
(***************************************************************************)

\* the state an operation works on
St(f, l, lv, iv) == [files |-> f, links |-> l, lv |-> lv, iv |-> iv]

\* what an Install returns: the state it leaves, the error ("" = nil), the
\* step it ended in, and the release tag it fetched
Ret(S, stage, tag) ==
    [S |-> S,
     err |-> IF stage \in {"done", "skip", "current"} THEN NoErr ELSE stage,
     stage |-> stage,
     tag |-> tag]

\* "Link as latest": os.Remove of the old link (a missing link is
\* tolerated), then os.Symlink
Relink(S, name, target, unlinkFault, symlinkFault, tag) ==
    IF S.links[name] # NoLink /\ unlinkFault
    THEN Ret(S, "unlink", tag)
    ELSE LET removed == [S EXCEPT !.links[name] = NoLink] IN
         IF symlinkFault \/ LatestDir \notin S.files
         THEN Ret(removed, "symlink", tag)
         ELSE Ret([S EXCEPT !.links[name] = target], "done", tag)

-----------------------------------------------------------------------------
(* rosa: pkg/tools/rosa/rosa.go *)

\* the release assets for this system that are not / are checksum files
RosaCandidates(assets) ==
    [bins |-> FindAssetsExcluding({".sha256"}, FindAssetsForArchAndOS(assets)),
     sums |-> FindAssetsContaining({".sha256"}, FindAssetsForArchAndOS(assets))]

\* a selection that takes the first candidate when there are several
RosaSelectFirst(assets) ==
    LET c == RosaCandidates(assets) IN
    IF Len(c.bins) = 0 \/ Len(c.sums) = 0
    THEN [ok |-> FALSE, bin |-> "", sum |-> ""]
    ELSE [ok |-> TRUE, bin |-> c.bins[1], sum |-> c.sums[1]]

\* "unexpected number of assets found matching system spec: expected 1"
RosaSelect(assets) ==
    LET c == RosaCandidates(assets) IN
    IF Len(c.bins) # 1 \/ Len(c.sums) # 1
    THEN [ok |-> FALSE, bin |-> "", sum |-> ""]
    ELSE [ok |-> TRUE, bin |-> c.bins[1], sum |-> c.sums[1]]

\* an installer that links the downloaded binary before it verifies it
RosaInstallLinkFirst(S, env) ==
    LET sel == RosaSelect(env.assets) IN
    IF ~env.reach THEN Ret(S, "fetch", "")
    ELSE IF ~sel.ok THEN Ret(S, "select", env.tag)
    ELSE
    LET toolAsset == sel.bin
        checksumAsset == sel.sum
        versionedDir == Join(ToolDir("rosa"), env.tag)
    IN
    IF env.fault = "mkdir" THEN Ret(S, "mkdir", env.tag)
    ELSE
    LET dl == DownloadReleaseAssets(MkdirAll(S.files, versionedDir),
                                    <<checksumAsset, toolAsset>>, versionedDir, env.got)
        S1 == [S EXCEPT !.files = dl.files]
        binarySum == Sha256sum(env.content)
        checksumLine == GetLineInFileMatchingKey(env.sumfile, toolAsset)
        checksumTokens == Fields(checksumLine.line)
        linked == Relink(S1, SymlinkPath("rosa"), Join(versionedDir, toolAsset),
                         env.fault = "unlink", env.fault = "symlink", env.tag)
    IN
    IF dl.err THEN Ret(S1, "download", env.tag)
    ELSE IF linked.err # NoErr THEN linked
    ELSE IF ~checksumLine.found THEN Ret(linked.S, "verify", env.tag)
    ELSE IF Len(checksumTokens) # 2 THEN Ret(linked.S, "verify", env.tag)
    ELSE IF binarySum # checksumTokens[1] THEN Ret(linked.S, "verify", env.tag)
    ELSE linked

\* the verify step of Install: the digest of the downloaded file against the
\* first field of the checksum line found for the asset's name
RosaVerify(sumfile, toolAsset, content) ==
    LET binarySum == Sha256sum(content)
        checksumLine == GetLineInFileMatchingKey(sumfile, toolAsset)
        checksumTokens == Fields(checksumLine.line)
    IN
    IF ~checksumLine.found THEN "verify"
    ELSE IF Len(checksumTokens) # 2 THEN "verify"
    ELSE IF binarySum # checksumTokens[1] THEN "verify"
    ELSE NoErr

RosaInstall(S, env) ==
    LET sel == RosaSelect(env.assets) IN
    IF ~env.reach THEN Ret(S, "fetch", "")
    ELSE IF ~sel.ok THEN Ret(S, "select", env.tag)
    ELSE
    LET toolAsset == sel.bin
        checksumAsset == sel.sum
        versionedDir == Join(ToolDir("rosa"), env.tag)
    IN
    IF env.fault = "mkdir" THEN Ret(S, "mkdir", env.tag)
    ELSE
    LET dl == DownloadReleaseAssets(MkdirAll(S.files, versionedDir),
                                    <<checksumAsset, toolAsset>>, versionedDir, env.got)
        S1 == [S EXCEPT !.files = dl.files]
    IN
    IF dl.err THEN Ret(S1, "download", env.tag)
    ELSE IF RosaVerify(env.sumfile, toolAsset, env.content) # NoErr
         THEN Ret(S1, "verify", env.tag)
    ELSE Relink(S1, SymlinkPath("rosa"), Join(versionedDir, toolAsset),
                env.fault = "unlink", env.fault = "symlink", env.tag)

-----------------------------------------------------------------------------
(* ocm: pkg/tools/ocm/ocm.go *)

\* the assets that pass the loop's OS and architecture tests, split into
\* those whose name contains "sha256" and the others
OcmCandidates(assets) ==
    LET IsBin(a) == Contains(a, GOOS) /\ Contains(a, GOARCH) /\ ~Contains(a, "sha256")
        IsSum(a) == Contains(a, GOOS) /\ Contains(a, GOARCH) /\ Contains(a, "sha256")
    IN [bins |-> SelectSeq(assets, IsBin), sums |-> SelectSeq(assets, IsSum)]

\* "detected duplicate ocm-cli ... assets", "failed to find ocm-cli or it's checksum"
OcmSelect(assets) ==
    LET c == OcmCandidates(assets) IN
    IF Len(c.sums) > 1 \/ Len(c.bins) > 1 THEN [ok |-> FALSE, bin |-> "", sum |-> ""]
    ELSE IF Len(c.sums) = 0 \/ Len(c.bins) = 0 THEN [ok |-> FALSE, bin |-> "", sum |-> ""]
    ELSE [ok |-> TRUE, bin |-> c.bins[1], sum |-> c.sums[1]]

\* strings.Split(string(checksumBytes), " ")[0], trimmed: the first field of
\* the file when the first line has several fields or is the only line
OcmChecksum(file) ==
    IF file = <<>> THEN ""
    ELSE IF file[1] = <<>> THEN ""
    ELSE IF Len(file[1]) >= 2 \/ Len(file) = 1 THEN file[1][1]
    ELSE "?"

OcmInstall(S, env) ==
    LET sel == OcmSelect(env.assets) IN
    IF ~env.reach THEN Ret(S, "fetch", "")
    ELSE IF ~sel.ok THEN Ret(S, "select", env.tag)
    ELSE
    LET ocmBinaryAsset == sel.bin
        checksumAsset == sel.sum
        versionedDir == Join(ToolDir("ocm"), env.tag)
    IN
    IF env.fault = "mkdir" THEN Ret(S, "mkdir", env.tag)
    ELSE
    LET dl == DownloadReleaseAssets(MkdirAll(S.files, versionedDir),
                                    <<checksumAsset, ocmBinaryAsset>>, versionedDir, env.got)
        S1 == [S EXCEPT !.files = dl.files]
        binarySum == Sha256sum(env.content)
        checksum == OcmChecksum(env.sumfile)
    IN
    IF dl.err THEN Ret(S1, "download", env.tag)
    ELSE IF binarySum # checksum THEN Ret(S1, "skip", env.tag)
    ELSE Relink(S1, SymlinkPath("ocm"), Join(versionedDir, ocmBinaryAsset),
                env.fault = "unlink", env.fault = "symlink", env.tag)

-----------------------------------------------------------------------------
(* osdctl: pkg/tool/osdctl/osdctl.go *)

\* the scanner loop over the checksum file: a line without exactly two
\* fields is an error; the digest of the last line naming the asset is kept
RECURSIVE OsdctlScan(_, _, _)
OsdctlScan(file, name, checksum) ==
    IF file = <<>> THEN [ok |-> TRUE, checksum |-> checksum]
    ELSE LET tokens == Fields(Head(file)) IN
         IF Len(tokens) # 2 THEN [ok |-> FALSE, checksum |-> ""]
         ELSE IF name # tokens[2] THEN OsdctlScan(Tail(file), name, checksum)
         ELSE OsdctlScan(Tail(file), name, tokens[1])

\* unArchive: the loop leaves at the first header that is not io.EOF, so
\* nothing is extracted; an archive without entries is reported as an error
unArchive(fs, entries, destination, gzipFault) ==
    IF gzipFault THEN [files |-> fs, err |-> TRUE]
    ELSE IF entries # {} THEN [files |-> fs, err |-> FALSE]
    ELSE [files |-> fs, err |-> TRUE]

\* the asset named sha256sum.txt, and the others that name the
\* architecture (x86_64 on amd64) and, in lower case, the OS
OsdctlCandidates(assets) ==
    LET arch == IF GOARCH = "amd64" THEN "x86_64" ELSE GOARCH
        IsSum(a) == a = "sha256sum.txt"
        IsBin(a) == a # "sha256sum.txt" /\ Contains(a, arch) /\ Contains(ToLower(a), ToLower(GOOS))
    IN [bins |-> SelectSeq(assets, IsBin), sums |-> SelectSeq(assets, IsSum)]

\* "detected duplicate osdctl ... asset", "failed to find osdctl or it's checksum"
OsdctlSelect(assets) ==
    LET c == OsdctlCandidates(assets) IN
    IF Len(c.sums) > 1 \/ Len(c.bins) > 1 THEN [ok |-> FALSE, bin |-> "", sum |-> ""]
    ELSE IF Len(c.sums) = 0 \/ Len(c.bins) = 0 THEN [ok |-> FALSE, bin |-> "", sum |-> ""]
    ELSE [ok |-> TRUE, bin |-> c.bins[1], sum |-> c.sums[1]]

OsdctlInstall(S, env) ==
    LET sel == OsdctlSelect(env.assets) IN
    IF ~env.reach THEN Ret(S, "fetch", "")
    ELSE IF ~sel.ok THEN Ret(S, "select", env.tag)
    ELSE
    LET osdctlBinaryAsset == sel.bin
        checksumAsset == sel.sum
        versionedDir == Join(ToolDir("osdctl"), env.tag)
    IN
    IF env.fault = "mkdir" THEN Ret(S, "mkdir", env.tag)
    ELSE
    LET dl == DownloadReleaseAssets(MkdirAll(S.files, versionedDir),
                                    <<checksumAsset, osdctlBinaryAsset>>, versionedDir, env.got)
        S1 == [S EXCEPT !.files = dl.files]
        binarySum == Sha256sum(env.content)
        scan == OsdctlScan(env.sumfile, osdctlBinaryAsset, "")
        un == unArchive(S1.files, env.entries, versionedDir, env.fault = "unarchive")
        S2 == [S1 EXCEPT !.files = un.files]
    IN
    IF dl.err THEN Ret(S1, "download", env.tag)
    ELSE IF ~scan.ok THEN Ret(S1, "verify", env.tag)
    ELSE IF binarySum # scan.checksum THEN Ret(S1, "skip", env.tag)
    ELSE IF un.err THEN Ret(S2, "unarchive", env.tag)
    ELSE Relink(S2, SymlinkPath("osdctl"), Join(versionedDir, "osdctl"),
                env.fault = "unlink", env.fault = "symlink", env.tag)

-----------------------------------------------------------------------------
(* aws: pkg/tools/awscli/awscli.go, pkg/tools/base/github.go *)

\* Github.LatestVersion with VersionInLatestTag: the memoised tag, fetched
\* (Source.FetchLatestTag) while the memo is empty.  A repository without
\* tags yields "" and no error.
LatestVersion(S, t, reach, tag) ==
    IF S.lv[t] # "" THEN [S |-> S, err |-> FALSE, version |-> S.lv[t], fetched |-> FALSE]
    ELSE IF ~reach THEN [S |-> S, err |-> TRUE, version |-> "", fetched |-> TRUE]
    ELSE [S |-> [S EXCEPT !.lv[t] = tag], err |-> FALSE, version |-> tag, fetched |-> TRUE]

\* utils.Unzip: every entry is created at filepath.Join(destination, name)
Unzip(fs, entries, destination) == fs \cup {Clean(destination \o e) : e \in entries}

\* Tool.createWrapper writes the wrapper script <versionedDir>/aws
createWrapper(fs, versionedDir) == CreateFile(fs, Join(versionedDir, "aws"))

AwsInstall(S, env) ==
    LET lvr == LatestVersion(S, "aws", env.reach, env.tag)
        S0 == lvr.S
        version == lvr.version
        versionedDir == Join(ToolDir("aws"), version)
        awsNewInstallDir == Join(versionedDir, "aws-cli")
        awsOldInstallDir == Join(versionedDir, "aws")
        awsCompleterBinaryFilepath == awsNewInstallDir \o <<"dist", "aws_completer">>
        \* os.RemoveAll, os.MkdirAll, then DownloadAWSCLIRelease creates the bundle file
        S1 == [S0 EXCEPT !.files = RemoveAll(@, versionedDir)]
        S2 == [S1 EXCEPT !.files = CreateFile(MkdirAll(@, versionedDir),
                                              Join(versionedDir, "aws-cli.zip"))]
        S3 == [S2 EXCEPT !.files = Unzip(@, env.entries, versionedDir)]
        S4 == [S3 EXCEPT !.files = Rename(@, awsOldInstallDir, awsNewInstallDir)]
        \* os.Remove(latest/aws), createWrapper, os.Symlink
        S5 == [S4 EXCEPT !.links["aws"] = NoLink]
        S6 == [S5 EXCEPT !.files = createWrapper(@, versionedDir)]
        S7 == [S6 EXCEPT !.links["aws"] = Join(versionedDir, "aws")]
    IN
    IF lvr.err THEN Ret(S, "fetch", "")
    ELSE IF env.fault = "rmall" THEN Ret(S0, "rmall", version)
    ELSE IF env.fault = "mkdir" THEN Ret(S1, "mkdir", version)
    ELSE IF "aws-cli.zip" \notin env.got THEN Ret(S2, "download", version)
    ELSE IF env.fault = "unarchive" THEN Ret(S2, "unarchive", version)
    ELSE IF awsOldInstallDir \notin S3.files \/ env.fault = "rename" THEN Ret(S3, "rename", version)
    ELSE IF S4.links["aws"] # NoLink /\ env.fault = "unlink" THEN Ret(S4, "unlink", version)
    ELSE IF env.fault = "wrapper" THEN Ret(S5, "wrapper", version)
    ELSE IF env.fault = "symlink" \/ LatestDir \notin S6.files THEN Ret(S6, "symlink", version)
    ELSE IF S7.links[symlinkCompleterPath] # NoLink /\ env.fault = "unlink2"
         THEN Ret(S7, "unlink2", version)
    ELSE IF env.fault = "symlink2"
         THEN Ret([S7 EXCEPT !.links[symlinkCompleterPath] = NoLink], "symlink2", version)
    ELSE Ret([S7 EXCEPT !.links[symlinkCompleterPath] = awsCompleterBinaryFilepath],
             "done", version)

\* the primary and checksum assets of a release that match this system, by
\* the tests of the tool's installer (aws selects no release asset)
Candidates(t, assets) ==
    CASE t = "rosa" -> RosaCandidates(assets)
      [] t = "ocm" -> OcmCandidates(assets)
      [] t = "osdctl" -> OsdctlCandidates(assets)
      [] OTHER -> [bins |-> <<>>, sums |-> <<>>]

\* the Install method of each registered tool
ToolInstall(t, S, env) ==
    CASE t = "rosa" -> RosaInstall(S, env)
      [] t = "ocm" -> OcmInstall(S, env)
      [] t = "osdctl" -> OsdctlInstall(S, env)
      [] t = "aws" -> AwsInstall(S, env)

-----------------------------------------------------------------------------
(* Default.Remove, Default.Installed, Default.InstalledVersion:            *)
(* pkg/tools/base/default.go                                               *)

\* a Remove that deletes the latest directory instead of the tool's link
RemoveWholeLatest(S, t, fault) ==
    LET S1 == [S EXCEPT !.files = RemoveAll(S.files, ToolDir(t))] IN
    IF fault = "rmall" THEN [S |-> S, err |-> "rmall"]
    ELSE [S |-> [S1 EXCEPT !.files = RemoveAll(@, LatestDir),
                           !.links = [n \in ExeNames |-> NoLink]],
          err |-> NoErr]

\* os.RemoveAll of the tool directory, then os.Remove of latest/<name>; a
\* missing link is an error here
Remove(S, t, fault) ==
    LET S1 == [S EXCEPT !.files = RemoveAll(S.files, ToolDir(t))] IN
    IF fault = "rmall" THEN [S |-> S, err |-> "rmall"]
    ELSE IF S1.links[SymlinkPath(t)] = NoLink \/ fault = "unlink"
         THEN [S |-> S1, err |-> "unlink"]
    ELSE [S |-> [S1 EXCEPT !.links[SymlinkPath(t)] = NoLink], err |-> NoErr]

Installed(S, t) == FileExists(S.files, ToolDir(t))

\* the memoised version, else the second element of the link target's path
\* relative to the install directory
InstalledVersion(S, t) ==
    IF S.iv[t] # "" THEN [S |-> S, err |-> NoErr, version |-> S.iv[t]]
    ELSE IF ~EvalSymlinksOk(S.files, S.links, SymlinkPath(t))
         THEN [S |-> S, err |-> "evalsymlinks", version |-> ""]
    ELSE LET relLatestFileTarget == S.links[SymlinkPath(t)]
             v == relLatestFileTarget[2]
         IN [S |-> [S EXCEPT !.iv[t] = v], err |-> NoErr, version |-> v]

-----------------------------------------------------------------------------
(* The answers of the outside world that are explored *)

PrimaryAsset(t) ==
    CASE t = "rosa" -> "rosa_linux_amd64"
      [] t = "ocm" -> "ocm-linux-amd64"
      [] t = "osdctl" -> "osdctl_Linux_x86_64.tar.gz"
      [] t = "aws" -> "aws-cli.zip"

ChecksumAsset(t) ==
    CASE t = "rosa" -> "rosa_linux_amd64.sha256"
      [] t = "ocm" -> "ocm-linux-amd64.sha256"
      [] t = "osdctl" -> "sha256sum.txt"
      [] t = "aws" -> ""

GoodAssets(t) == IF t = "aws" THEN <<>> ELSE <<PrimaryAsset(t), ChecksumAsset(t)>>

GoodEntries(t) ==
    CASE t = "osdctl" -> {<<"osdctl">>, <<"README.md">>}
      [] t = "aws" -> {<<"aws">>, <<"aws", "dist">>, <<"aws", "dist", "aws">>,
                       <<"aws", "dist", "aws_completer">>}
      [] OTHER -> {}

\* an archive entry named ../../../escaped
EscapingEntry == <<"..", "..", "..", "escaped">>

EntrySets(t) ==
    CASE t = "osdctl" -> {GoodEntries(t), {<<"README.md">>}, {}}
      [] t = "aws" -> {GoodEntries(t), {}, GoodEntries(t) \cup {EscapingEntry}}
      [] OTHER -> {{}}

\* the release tags a source may report; a repository may have no tag at all
TagsOf(t) == IF t = "aws" THEN Versions \cup {""} ELSE Versions

\* s in reverse order
RECURSIVE Reverse(_)
Reverse(s) == IF s = <<>> THEN <<>> ELSE Append(Reverse(Tail(s)), Head(s))

\* the asset lists of a release: at most MaxAssets names of the pool, in the
\* order of the pool or in the reverse order
AssetLists(t) ==
    LET Pick(I) == SelectSeq(AssetPool(t), LAMBDA a : \E i \in I : AssetPool(t)[i] = a)
        picks == {Pick(I) : I \in {J \in SUBSET (1..Len(AssetPool(t))) : Cardinality(J) <= MaxAssets}}
    IN picks \cup {Reverse(a) : a \in picks}

\* the downloads that succeed: all of them, or all but the primary asset
GotSets(t) == {{PrimaryAsset(t), ChecksumAsset(t)}, {ChecksumAsset(t)}}

\* everything goes well and the release is tagged v
GoodEnv(t, v) ==
    [reach |-> TRUE, tag |-> v, assets |-> GoodAssets(t),
     got |-> {PrimaryAsset(t), ChecksumAsset(t)}, content |-> "c1",
     sumfile |-> <<<<Sha256sum("c1"), PrimaryAsset(t)>>>>,
     entries |-> GoodEntries(t), fault |-> "none"]

\* the filesystem calls of each Install that may fail
FaultsOf(t) ==
    IF t = "aws" THEN {"none", "mkdir", "wrapper", "symlink"}
    ELSE IF t = "osdctl" THEN {"none", "mkdir", "unarchive", "unlink", "symlink"}
    ELSE {"none", "mkdir", "unlink", "symlink"}

\* the answers explored for one Install: the good answer varied in one
\* respect, and the good answer with every tag the source may report
Envs(t) ==
    {[GoodEnv(t, VersionNames[1]) EXCEPT !.reach = FALSE]} \cup
    {[GoodEnv(t, VersionNames[1]) EXCEPT !.assets = a] : a \in AssetLists(t)} \cup
    {GoodEnv(t, v) : v \in TagsOf(t)} \cup
    UNION {
        {[GoodEnv(t, v) EXCEPT !.got = g] : g \in GotSets(t)} \cup
        {[GoodEnv(t, v) EXCEPT !.content = c] : c \in Contents} \cup
        {[GoodEnv(t, v) EXCEPT !.sumfile = f] : f \in SumFiles(PrimaryAsset(t))} \cup
        {[GoodEnv(t, v) EXCEPT !.entries = e] : e \in EntrySets(t)} \cup
        {[GoodEnv(t, v) EXCEPT !.fault = x] : x \in FaultsOf(t)}
      : v \in Versions}

\* the answers explored where several operations are combined
CoarseEnvs(t) ==
    {[GoodEnv(t, VersionNames[1]) EXCEPT !.reach = FALSE]} \cup
    {GoodEnv(t, v) : v \in TagsOf(t)} \cup
    {[GoodEnv(t, v) EXCEPT !.content = "c2"] : v \in Versions}

-----------------------------------------------------------------------------
(* State, initial state and the calls of one tool's methods *)

Cur == St(files, links, latestVersion, installedVersion)

Commit(S) ==
    /\ files' = S.files
    /\ links' = S.links
    /\ latestVersion' = S.lv
    /\ installedVersion' = S.iv

\* the record of an operation's outcome
Outcome(op, t, err, stage, tag, val) ==
    [op |-> op, tool |-> t, err |-> err, stage |-> stage, tag |-> tag, val |-> val,
     nbin |-> 0, nsum |-> 0, args |-> <<>>, passed |-> <<>>, ok |-> {},
     called |-> FALSE, tags |-> <<>>]

EmptyMemo == [t \in Tools |-> ""]

\* a freshly created install directory with one registered tool
Init ==
    /\ files = {InstallDir, LatestDir}
    /\ links = [n \in ExeNames |-> NoLink]
    /\ latestVersion = EmptyMemo
    /\ installedVersion = EmptyMemo
    /\ toolMap \in {{t} : t \in Tools}
    /\ last = Outcome("init", "", NoErr, "", "", "")

\* tool.Install() with one of the given answers of the outside world
DoInstall(t, answers) ==
    \E env \in answers :
        \E r \in {ToolInstall(t, Cur, env)} :
        /\ Commit(r.S)
        /\ last' = [Outcome("Install", t, r.err, r.stage, r.tag, "") EXCEPT
                        !.nbin = IF env.reach THEN Len(Candidates(t, env.assets).bins) ELSE 0,
                        !.nsum = IF env.reach THEN Len(Candidates(t, env.assets).sums) ELSE 0]
        /\ UNCHANGED toolMap

\* tool.Install()
CallInstall(t) == DoInstall(t, Envs(t))

\* tool.Install() while the source and the filesystem answer plainly
InstallPlain(t) == DoInstall(t, CoarseEnvs(t))

\* tool.Remove(); val records the filesystem call made to fail, if any
CallRemove(t) ==
    \E fault \in {"none", "rmall", "unlink"} :
        \E r \in {Remove(Cur, t, fault)} :
        /\ Commit(r.S)
        /\ last' = Outcome("Remove", t, r.err, "", "", fault)
        /\ UNCHANGED toolMap

\* tool.InstalledVersion()
CallInstalledVersion(t) ==
    \E r \in {InstalledVersion(Cur, t)} :
    /\ Commit(r.S)
    /\ last' = Outcome("InstalledVersion", t, r.err, "", "", r.version)
    /\ UNCHANGED toolMap

\* tool.LatestVersion()
CallLatestVersion(t) ==
    \E reach \in BOOLEAN, tag \in TagsOf(t) :
        \E r \in {LatestVersion(Cur, t, reach, tag)} :
        /\ Commit(r.S)
        /\ last' = Outcome("LatestVersion", t, IF r.err THEN "fetch" ELSE NoErr, "", "", r.version)
        /\ UNCHANGED toolMap

\* the process ends and a new one starts: the memo fields are lost
NewProcess ==
    /\ latestVersion' = EmptyMemo
    /\ installedVersion' = EmptyMemo
    /\ last' = Outcome("NewProcess", "", NoErr, "", "", "")
    /\ UNCHANGED <<files, links, toolMap>>

Next ==
    \/ \E t \in toolMap : CallInstall(t)
    \/ \E t \in toolMap : CallRemove(t)
    \/ NewProcess

Spec == Init /\ [][Next]_vars

-----------------------------------------------------------------------------
(* Source.DownloadReleaseAssets on its own: a list of assets is downloaded *)
(* into an empty directory                                                 *)

\* the assets that may exist at the source, and one that never does
DlExisting == {"asset1", "asset2", "asset3"}
DlNames == DlExisting \cup {"fakeAsset"}

\* the lists of at most MaxAssets different assets
DlLists ==
    UNION {{a \in [1..n -> DlNames] : \A i, j \in 1..n : i # j => a[i] # a[j]} : n \in 0..MaxAssets}

\* the directory the assets are downloaded to
DlDir == <<"tmp">>

InitDl ==
    /\ files = {InstallDir, DlDir}
    /\ links = [n \in ExeNames |-> NoLink]
    /\ latestVersion = EmptyMemo
    /\ installedVersion = EmptyMemo
    /\ toolMap = {}
    /\ last = Outcome("init", "", NoErr, "", "", "")

\* src.DownloadReleaseAssets(assets, tmp); args: the assets asked for, ok:
\* those that exist at the source, passed: the failures joined in the error
CallDownloadReleaseAssets ==
    \E assets \in DlLists, got \in SUBSET DlExisting :
        \E r \in {DownloadReleaseAssets({InstallDir, DlDir}, assets, DlDir, got)} :
        /\ files' = r.files
        /\ last' = [Outcome("DownloadReleaseAssets", "", IF r.err THEN "download" ELSE NoErr,
                            "", "", "") EXCEPT
                        !.args = assets, !.ok = got, !.passed = r.failed]
        /\ UNCHANGED <<links, latestVersion, installedVersion, toolMap>>

NextDl == CallDownloadReleaseAssets

SpecDl == InitDl /\ [][NextDl]_vars

-----------------------------------------------------------------------------
(* The verify step on its own: a checksum file, the name of the downloaded *)
(* asset and its content are given, and the step is run on them            *)

MaxLines == 2           \* longest checksum file

\* the asset whose checksum is looked up, and names that contain it, extend
\* it, or differ from it where it has a "."
SumKey == "rosa_linux_amd64.tar.gz"
SumNames == {SumKey, "rosa_linux_amd64.tar.gz.sig", "rosa_linux_amd64-tar.gz", "other"}

\* the digests a checksum file may list: lower-case and upper-case hex
SumDigests == Digests \cup {"AA11"}

\* the checksum files of at most MaxLines lines "<digest>  <name>"
SumInputs ==
    UNION {[1..n -> {<<d, w>> : d \in SumDigests, w \in SumNames}] : n \in 0..MaxLines}

InitSum ==
    /\ files = {InstallDir, LatestDir}
    /\ links = [n \in ExeNames |-> NoLink]
    /\ latestVersion = EmptyMemo
    /\ installedVersion = EmptyMemo
    /\ toolMap = {"rosa"}
    /\ \E f \in SumInputs, c \in Contents :
          last = [Outcome("input", "rosa", NoErr, "", SumKey, c) EXCEPT !.args = f]

\* the verify step of Install on the given checksum file (args), asset name
\* (tag) and content (val)
CallVerify ==
    /\ last.op = "input"
    /\ last' = [last EXCEPT !.op = "Verify",
                            !.err = RosaVerify(last.args, last.tag, last.val)]
    /\ UNCHANGED <<files, links, latestVersion, installedVersion, toolMap>>

NextSum == CallVerify

SpecSum == InitSum /\ [][NextSum]_vars

-----------------------------------------------------------------------------
(* The asset search on its own: a release's asset list is given, and the   *)
(* search and the installer's selection are run on it                      *)

MaxWidgets == 4         \* longest asset list of a release

WidgetPool == {"widget-linux-amd64", "widget-linux-amd64.sha256", "widget-darwin-amd64",
               "widget-darwin-amd64.sha256", "widget-linux-arm64", "Widget_Linux_x86_64"}

\* the asset lists of at most MaxWidgets different names, in every order
WidgetLists ==
    UNION {{l \in [1..n -> WidgetPool] : \A i, j \in 1..n : l[i] = l[j] => i = j} :
           n \in 0..MaxWidgets}

InitFind ==
    /\ files = {InstallDir, LatestDir}
    /\ links = [n \in ExeNames |-> NoLink]
    /\ latestVersion = EmptyMemo
    /\ installedVersion = EmptyMemo
    /\ toolMap = {"rosa"}
    /\ \E l \in WidgetLists :
          last = [Outcome("input", "rosa", NoErr, "", "", "") EXCEPT !.args = l]

\* FindAssetsForArchAndOS on the given list (tags), and the primary (tag) and
\* checksum (val) asset the installer selects from it
CallFindAssets ==
    /\ last.op = "input"
    /\ \E sel \in {RosaSelect(last.args)} :
          last' = [last EXCEPT !.op = "FindAssetsForArchAndOS",
                               !.tags = FindAssetsForArchAndOS(last.args),
                               !.err = IF sel.ok THEN NoErr ELSE "select",
                               !.tag = sel.bin,
                               !.val = sel.sum]
    /\ UNCHANGED <<files, links, latestVersion, installedVersion, toolMap>>

NextFind == CallFindAssets

SpecFind == InitFind /\ [][NextFind]_vars

-----------------------------------------------------------------------------
(* The OS and architecture search on hosts of every kind: the host and a   *)
(* release's asset list are given, and both searches are run on the list   *)

HostOSs == {"linux", "darwin"}
HostArchs == {"amd64", "arm64"}

AliasPool == {"tool-x86_64", "tool-amd64", "tool-mac", "tool-darwin",
              "Tool-Linux-X86_64", "Tool-MAC-arm64"}

\* the asset lists of at most MaxAssets different names, in every order
AliasLists ==
    UNION {{l \in [1..n -> AliasPool] : \A i, j \in 1..n : l[i] = l[j] => i = j} :
           n \in 0..MaxAssets}

InitHost ==
    /\ files = {InstallDir, LatestDir}
    /\ links = [n \in ExeNames |-> NoLink]
    /\ latestVersion = EmptyMemo
    /\ installedVersion = EmptyMemo
    /\ toolMap = {"rosa"}
    /\ \E l \in AliasLists, goos \in HostOSs, goarch \in HostArchs :
          last = [Outcome("input", "rosa", NoErr, "", goos, goarch) EXCEPT !.args = l]

\* FindAssetsForArch (passed) and FindAssetsForOS (tags) on the given list on
\* a host of OS tag and architecture val
CallFindForHost ==
    /\ last.op = "input"
    /\ last' = [last EXCEPT !.op = "FindAssetsForHost",
                            !.passed = FindAssetsForArchOn(last.val, last.args),
                            !.tags = FindAssetsForOSOn(last.tag, last.args)]
    /\ UNCHANGED <<files, links, latestVersion, installedVersion, toolMap>>

NextHost == CallFindForHost

SpecHost == InitHost /\ [][NextHost]_vars

-----------------------------------------------------------------------------
(* The registry on its own: initMap is run on a list of constructed tools, *)
(* each known by its name and by its place in the list                     *)

MaxRegs == 3            \* longest list of tools registered by initMap

\* the lists of tool names that initMap may be written with
RegLists == UNION {[1..n -> Tools] : n \in 0..MaxRegs}

\* toolMap[t.Name()] = t for every tool of the list in turn: the map from a
\* name to the place of the tool stored under it
RECURSIVE initMapFrom(_, _, _)
initMapFrom(map, regs, i) ==
    IF i > Len(regs) THEN map
    ELSE initMapFrom([n \in DOMAIN map \cup {regs[i]} |->
                         IF n = regs[i] THEN i ELSE map[n]], regs, i + 1)

\* initMap has no result: it cannot report an error
initMap(regs) == [map |-> initMapFrom(<<>>, regs, 1), err |-> NoErr]

InitReg ==
    /\ files = {InstallDir, LatestDir}
    /\ links = [n \in ExeNames |-> NoLink]
    /\ latestVersion = EmptyMemo
    /\ installedVersion = EmptyMemo
    /\ toolMap = {}
    /\ \E regs \in RegLists :
          last = [Outcome("input", "", NoErr, "", "", "") EXCEPT !.args = regs]

\* GetMap() on a nil toolMap: the registry is built; tags is the map built
CallInitMap ==
    /\ last.op = "input"
    /\ \E r \in {initMap(last.args)} :
        /\ toolMap' = DOMAIN r.map
        /\ last' = [last EXCEPT !.op = "initMap", !.err = r.err, !.tags = r.map]
    /\ UNCHANGED <<files, links, latestVersion, installedVersion>>

NextReg == CallInitMap

SpecReg == InitReg /\ [][NextReg]_vars

-----------------------------------------------------------------------------
(* The aws-cli tool of the earlier layout (src/unnamed/part_011): its      *)
(* Install writes the wrapper script to latest/aws-cli itself.  A regular  *)
(* file of latest/ is a path of files; links holds the symlinks only.      *)

OldAws == "aws-cli"

\* t.symlinkPath(latestDir)
LatestFile(n) == Join(LatestDir, n)

\* the entries of the bundle, with the directory aws-cli on top
AwsCliEntries == {<<"aws-cli">>, <<"aws-cli", "dist">>, <<"aws-cli", "dist", "aws-cli">>}

\* the answers explored for one Install of aws-cli
AwsCliEnvs ==
    {[reach |-> FALSE, tag |-> VersionNames[1], got |-> TRUE, entries |-> AwsCliEntries,
      fault |-> "none"]} \cup
    UNION {
        {[reach |-> TRUE, tag |-> v, got |-> g, entries |-> AwsCliEntries, fault |-> "none"]
            : g \in BOOLEAN} \cup
        {[reach |-> TRUE, tag |-> v, got |-> TRUE, entries |-> e, fault |-> "none"]
            : e \in {AwsCliEntries, {}}} \cup
        {[reach |-> TRUE, tag |-> v, got |-> TRUE, entries |-> AwsCliEntries, fault |-> x]
            : x \in {"mkdir", "unlink", "wrapper"}}
      : v \in Versions}

\* Tool.createWrapper(latestDir, awsPath): os.WriteFile of the path it is
\* given, which Install sets to latest/aws-cli
AwsCliCreateWrapper(fs, latestFilePath) == CreateFile(fs, latestFilePath)

\* Tool.Install(rootDir, latestDir); got: the download left the bundle that
\* Install unzips
AwsCliInstall(S, env) ==
    LET version == env.tag
        versionedDir == Join(ToolDir(OldAws), version)
        awsCliPath == versionedDir \o <<"aws-cli-cli", "dist", "aws-cli">>
        awsOldInstallDir == Join(versionedDir, "aws-cli")
        awsNewInstallDir == Join(versionedDir, "aws-cli-cli")
        latestFilePath == LatestFile(OldAws)
        S1 == [S EXCEPT !.files = MkdirAll(@, versionedDir)]
        S2 == [S1 EXCEPT !.files = CreateFile(@, Join(versionedDir, "aws-cli-cli.zip"))]
        S3 == [S2 EXCEPT !.files = Unzip(@, env.entries, versionedDir)]
        S4 == [S3 EXCEPT !.files = Rename(@, awsOldInstallDir, awsNewInstallDir)]
        S5 == [S4 EXCEPT !.files = @ \ {latestFilePath}]
        S6 == [S5 EXCEPT !.files = AwsCliCreateWrapper(@, latestFilePath)]
    IN
    IF ~env.reach THEN Ret(S, "fetch", "")
    ELSE IF awsCliPath \in S.files THEN Ret(S, "current", version)
    ELSE IF env.fault = "mkdir" THEN Ret(S, "mkdir", version)
    ELSE IF ~env.got THEN Ret(S1, "download", version)
    ELSE IF awsOldInstallDir \notin S3.files THEN Ret(S3, "rename", version)
    ELSE IF latestFilePath \in S4.files /\ env.fault = "unlink" THEN Ret(S4, "unlink", version)
    ELSE IF env.fault = "wrapper" \/ LatestDir \notin S5.files THEN Ret(S5, "wrapper", version)
    ELSE Ret(S6, "done", version)

\* Tool.Remove(rootDir, latestDir): os.RemoveAll of the tool directory, then
\* os.Remove of latest/aws-cli
AwsCliRemove(S, fault) ==
    LET S1 == [S EXCEPT !.files = RemoveAll(@, ToolDir(OldAws))] IN
    IF fault = "rmall" THEN [S |-> S, err |-> "rmall"]
    ELSE IF LatestFile(OldAws) \notin S1.files \/ fault = "unlink"
         THEN [S |-> S1, err |-> "unlink"]
    ELSE [S |-> [S1 EXCEPT !.files = @ \ {LatestFile(OldAws)}], err |-> NoErr]

InitOld ==
    /\ files = {InstallDir, LatestDir}
    /\ links = [n \in ExeNames |-> NoLink]
    /\ latestVersion = EmptyMemo
    /\ installedVersion = EmptyMemo
    /\ toolMap = {OldAws}
    /\ last = Outcome("init", "", NoErr, "", "", "")

CallInstallOld ==
    \E env \in AwsCliEnvs :
        \E r \in {AwsCliInstall(Cur, env)} :
        /\ Commit(r.S)
        /\ last' = Outcome("Install", OldAws, r.err, r.stage, r.tag, "")
        /\ UNCHANGED toolMap

CallRemoveOld ==
    \E fault \in {"none", "rmall", "unlink"} :
        \E r \in {AwsCliRemove(Cur, fault)} :
        /\ Commit(r.S)
        /\ last' = Outcome("Remove", OldAws, r.err, "", "", fault)
        /\ UNCHANGED toolMap

NextOld ==
    \/ CallInstallOld
    \/ CallRemoveOld

SpecOld == InitOld /\ [][NextOld]_vars

-----------------------------------------------------------------------------
(* The version queries of one tool: Install, Remove, InstalledVersion and  *)
(* LatestVersion in any order, within one process or across processes      *)

NextVer ==
    \/ \E t \in toolMap : InstallPlain(t)
    \/ \E t \in toolMap : CallRemove(t)
    \/ \E t \in toolMap : CallInstalledVersion(t)
    \/ \E t \in toolMap : CallLatestVersion(t)
    \/ NewProcess

SpecVer == Init /\ [][NextVer]_vars

-----------------------------------------------------------------------------
(* The queries of the source by LatestVersion: the calls of one process    *)
(* are counted.  gcloud (src/unnamed/part_003) is the bucket-based tool.   *)

MaxQueries == 4         \* most queries of the source counted in one process

Gcloud == "gcloud"

\* Source.FindLatest: the object of the greatest name
FindLatest(matches) ==
    VersionNames[CHOOSE i \in 1..Len(VersionNames) :
                    /\ VersionNames[i] \in matches
                    /\ \A j \in 1..Len(VersionNames) : VersionNames[j] \in matches => j <= i]

\* gcloud's Tool.LatestVersion: the objects of the bucket are listed and the
\* latest of those for this system is taken, at every call
GcloudLatestVersion(S, reach, matches) ==
    IF ~reach \/ matches = {}
    THEN [S |-> S, err |-> TRUE, version |-> "", fetched |-> TRUE]
    ELSE [S |-> S, err |-> FALSE, version |-> FindLatest(matches), fetched |-> TRUE]

\* the outcome of a LatestVersion call: called = a query of this process has
\* succeeded, tag = the version it obtained, nsum = the queries made after
\* it, nbin = all queries of this process
Queried(t, r) ==
    [Outcome("LatestVersion", t, IF r.err THEN "fetch" ELSE NoErr, "", "", r.version)
        EXCEPT !.called = last.called \/ (r.fetched /\ ~r.err),
               !.tag = IF last.called THEN last.tag ELSE IF r.err THEN "" ELSE r.version,
               !.nsum = IF last.called /\ r.fetched THEN last.nsum + 1 ELSE last.nsum,
               !.nbin = IF r.fetched THEN last.nbin + 1 ELSE last.nbin]

InitLv ==
    /\ files = {InstallDir, LatestDir}
    /\ links = [n \in ExeNames |-> NoLink]
    /\ latestVersion = EmptyMemo
    /\ installedVersion = EmptyMemo
    /\ toolMap \in {{t} : t \in Tools \cup {Gcloud}}
    /\ last = Outcome("init", "", NoErr, "", "", "")

\* tool.LatestVersion() of a tool on base.Github
QueryLatestVersion(t) ==
    /\ t \in Tools
    /\ last.nbin < MaxQueries
    /\ \E reach \in BOOLEAN, tag \in TagsOf(t) :
        \E r \in {LatestVersion(Cur, t, reach, tag)} :
        /\ Commit(r.S)
        /\ last' = Queried(t, r)
        /\ UNCHANGED toolMap

\* tool.LatestVersion() of gcloud
QueryGcloudLatestVersion ==
    /\ Gcloud \in toolMap
    /\ last.nbin < MaxQueries
    /\ \E reach \in BOOLEAN, matches \in SUBSET Versions :
        \E r \in {GcloudLatestVersion(Cur, reach, matches)} :
        /\ Commit(r.S)
        /\ last' = Queried(Gcloud, r)
        /\ UNCHANGED toolMap

NextLv ==
    \/ \E t \in toolMap : QueryLatestVersion(t)
    \/ QueryGcloudLatestVersion
    \/ NewProcess

SpecLv == InitLv /\ [][NextLv]_vars

-----------------------------------------------------------------------------
(* The commands: cmd/install/install.go, cmd/upgrade/upgrade.go,           *)
(* pkg/tools/tools.go.  Every command runs in a process of its own, so it  *)
(* starts with empty version memos and they are lost when it ends.         *)

\* the source of a tool gave no answer
NoAnswer == "?"

\* the release tags the sources report while commands run
CmdTags == {VersionNames[1], VersionNames[2]}

\* one answer per tool for a whole command: unreachable, or a good release
CmdEnvs(t) ==
    {[GoodEnv(t, VersionNames[1]) EXCEPT !.reach = FALSE]} \cup {GoodEnv(t, v) : v \in CmdTags}

CmdAnswers(m) ==
    {e \in [m -> UNION {CmdEnvs(t) : t \in m}] : \A t \in m : e[t] \in CmdEnvs(t)}

\* the sequences that list every element of the set once (a map iteration)
Orders(m) ==
    {o \in [1..Cardinality(m) -> m] : \A i, j \in 1..Cardinality(m) : i # j => o[i] # o[j]}

\* the iteration orders of the map that a command given args may see: the
\* map is iterated only when no tool or "all" is named
OrdersFor(args, m) ==
    IF args = <<>> \/ "all" \in SeqRange(args) THEN Orders(m) ELSE {<<>>}

\* the tool lists a command is given: names of registered tools, or "all"
ArgLists(m) ==
    {<<"all">>} \cup
    UNION {{a \in [1..n -> m] : \A i, j \in 1..n : i # j => a[i] # a[j]} : n \in 0..Cardinality(m)}

\* the order of tool names under <
NameRank(t) ==
    CASE t = "all" -> 0
      [] t = "aws" -> 1
      [] t = "ocm" -> 2
      [] t = "osdctl" -> 3
      [] t = "rosa" -> 4

\* sort.Slice(installList, by Name)
RECURSIVE SortByName(_)
SortByName(list) ==
    IF list = <<>> THEN <<>>
    ELSE LET m == CHOOSE i \in 1..Len(list) :
                      \A j \in 1..Len(list) : NameRank(list[i]) <= NameRank(list[j])
         IN <<list[m]>> \o SortByName(SubSeq(list, 1, m - 1) \o SubSeq(list, m + 1, Len(list)))

\* tools.ListInstalled: the tools of the map whose directory exists, in the
\* order the map is iterated
ListInstalled(S, order) ==
    LET Keep(t) == Installed(S, t) IN SelectSeq(order, Keep)

\* the loop of tools.Install: an error is printed and the loop goes on; ok
\* is the set of tools reported as successfully installed, log the tools in
\* the order of the lines "Installing <name>", failed the tools reported
\* with "Encountered error while installing"
RECURSIVE InstallLoop(_, _, _)
InstallLoop(S, tools, envs) ==
    IF tools = <<>> THEN [S |-> S, ok |-> {}, log |-> <<>>, failed |-> {}]
    ELSE Only({Only({[S |-> rest.S,
                      ok |-> IF r.err = NoErr /\ r.stage = "done"
                             THEN rest.ok \cup {Head(tools)} ELSE rest.ok \ {Head(tools)},
                      log |-> <<Head(tools)>> \o rest.log,
                      failed |-> IF r.err # NoErr THEN rest.failed \cup {Head(tools)}
                                 ELSE rest.failed]
                     : rest \in {InstallLoop(r.S, Tail(tools), envs)}})
               : r \in {ToolInstall(Head(tools), S, envs[Head(tools)])}})

createInstallDir(fs) == MkdirAll(fs, InstallDir)
createLatestDir(fs) == MkdirAll(fs, LatestDir)

\* a batch that installs the tools in the order of their names
ToolsInstallByName(S, tools, envs) ==
    Only({InstallLoop(S1, SortByName(tools), envs)
          : S1 \in {[S EXCEPT !.files = createLatestDir(createInstallDir(@))]}})

\* tools.Install
ToolsInstall(S, tools, envs) ==
    Only({InstallLoop(S1, tools, envs)
          : S1 \in {[S EXCEPT !.files = createLatestDir(createInstallDir(@))]}})

\* a batch that returns an error when one of its tools failed
ToolsInstallOrFailStrict(S, tools, envs, fault) ==
    IF fault = "mkdir root"
    THEN [S |-> S, err |-> "installdir", log |-> <<>>, ok |-> {}, failed |-> {}]
    ELSE IF fault = "mkdir latest"
    THEN [S |-> [S EXCEPT !.files = createInstallDir(@)], err |-> "latestdir",
          log |-> <<>>, ok |-> {}, failed |-> {}]
    ELSE Only({[S |-> r.S, err |-> IF r.failed # {} THEN "install" ELSE NoErr,
                log |-> r.log, ok |-> r.ok, failed |-> r.failed]
               : r \in {ToolsInstall(S, tools, envs)}})

\* tools.Install with the directory creation that may fail: the error of
\* createInstallDir or createLatestDir is returned before the loop,
\* otherwise nil
ToolsInstallOrFail(S, tools, envs, fault) ==
    IF fault = "mkdir root"
    THEN [S |-> S, err |-> "installdir", log |-> <<>>, ok |-> {}, failed |-> {}]
    ELSE IF fault = "mkdir latest"
    THEN [S |-> [S EXCEPT !.files = createInstallDir(@)], err |-> "latestdir",
          log |-> <<>>, ok |-> {}, failed |-> {}]
    ELSE Only({[S |-> r.S, err |-> NoErr, log |-> r.log, ok |-> r.ok, failed |-> r.failed]
               : r \in {ToolsInstall(S, tools, envs)}})

\* what a command returns: the state, the error, whether tools.Install was
\* called, the list it was called with and the tools it installed
CmdRet(S, err, called, list, passed, ok) ==
    [S |-> S, err |-> err, called |-> called, list |-> list, passed |-> passed, ok |-> ok]

\* the loop of cmd Install over LatestVersion: it returns at the first error
RECURSIVE LatestVersions(_, _, _)
LatestVersions(S, list, envs) ==
    IF list = <<>> THEN [S |-> S, err |-> NoErr]
    ELSE Only({IF r.err THEN [S |-> r.S, err |-> "latestversion"]
               ELSE LatestVersions(r.S, Tail(list), envs)
               : r \in {LatestVersion(S, Head(list), envs[Head(list)].reach,
                                      envs[Head(list)].tag)}})

\* install.Install(args): the list is sorted, the latest version of every
\* tool is fetched and printed, then tools.Install is called
\* envsLv are the answers of the sources while the versions are printed,
\* envsIn their answers while the tools are installed
CmdInstallSortedAt(S, installList, envsLv, envsIn) ==
    Only({IF lv.err # NoErr THEN CmdRet(lv.S, lv.err, FALSE, installList, <<>>, {})
          ELSE Only({CmdRet(ins.S, NoErr, TRUE, installList, installList, ins.ok)
                     : ins \in {ToolsInstall(lv.S, installList, envsIn)}})
          : lv \in {LatestVersions(S, installList, envsLv)}})

CmdInstallSorted(S, installList, envs) == CmdInstallSortedAt(S, installList, envs, envs)

CmdInstall(S, args, order, envs) ==
    CmdInstallSorted(S, SortByName(IF args = <<>> \/ "all" \in SeqRange(args)
                                   THEN order ELSE args), envs)

\* install.Install(args) while the sources may publish a release between the
\* printing of the versions and the installs
CmdInstallAt(S, args, order, envsLv, envsIn) ==
    CmdInstallSortedAt(S, SortByName(IF args = <<>> \/ "all" \in SeqRange(args)
                                     THEN order ELSE args), envsLv, envsIn)

\* one round of the loop of upgradeTools and of Upgrade for tool t: the
\* error, if a version cannot be determined, and whether t is to be upgraded
VersionsOf(S, t, env) ==
    Only({IF lv.err THEN [S |-> lv.S, err |-> "latestversion", outdated |-> FALSE]
          ELSE Only({IF iv.err # NoErr
                     THEN [S |-> iv.S, err |-> "installedversion", outdated |-> FALSE]
                     ELSE [S |-> iv.S, err |-> NoErr, outdated |-> iv.version # lv.version]
                     : iv \in {InstalledVersion(lv.S, t)}})
          : lv \in {LatestVersion(S, t, env.reach, env.tag)}})

\* the loop of upgradeTools (cmd/upgrade/upgrade.go): it returns at the
\* first version that cannot be determined
RECURSIVE upgradeToolsLoop(_, _, _, _)
upgradeToolsLoop(S, listTools, envs, upgradeList) ==
    IF listTools = <<>> THEN [S |-> S, err |-> NoErr, upgradeList |-> upgradeList]
    ELSE Only({IF v.err # NoErr THEN [S |-> v.S, err |-> v.err, upgradeList |-> upgradeList]
               ELSE IF ~v.outdated
                    THEN upgradeToolsLoop(v.S, Tail(listTools), envs, upgradeList)
               ELSE upgradeToolsLoop(v.S, Tail(listTools), envs,
                                     Append(upgradeList, Head(listTools)))
               : v \in {VersionsOf(S, Head(listTools), envs[Head(listTools)])}})

\* upgradeTools(listTools)
upgradeTools(S, listTools, envs) ==
    Only({IF sc.err # NoErr THEN CmdRet(sc.S, sc.err, FALSE, listTools, <<>>, {})
          ELSE Only({CmdRet(ins.S, NoErr, TRUE, listTools, sc.upgradeList, ins.ok)
                     : ins \in {ToolsInstall(sc.S, sc.upgradeList, envs)}})
          : sc \in {upgradeToolsLoop(S, listTools, envs, <<>>)}})

\* the loop of Upgrade (the command without self-upgrade): a tool whose
\* version cannot be determined is skipped
RECURSIVE UpgradeLoop(_, _, _, _)
UpgradeLoop(S, listTools, envs, upgradeList) ==
    IF listTools = <<>> THEN [S |-> S, upgradeList |-> upgradeList]
    ELSE Only({IF v.err # NoErr \/ ~v.outdated
               THEN UpgradeLoop(v.S, Tail(listTools), envs, upgradeList)
               ELSE UpgradeLoop(v.S, Tail(listTools), envs,
                                Append(upgradeList, Head(listTools)))
               : v \in {VersionsOf(S, Head(listTools), envs[Head(listTools)])}})

\* upgrade.Upgrade(args) with the list of tools it settled on
UpgradeListed(S, listTools, envs) ==
    Only({Only({CmdRet(ins.S, NoErr, TRUE, listTools, sc.upgradeList, ins.ok)
                : ins \in {ToolsInstall(sc.S, sc.upgradeList, envs)}})
          : sc \in {UpgradeLoop(S, listTools, envs, <<>>)}})

Upgrade(S, args, order, envs) ==
    UpgradeListed(S, IF args = <<>> \/ "all" \in SeqRange(args)
                     THEN ListInstalled(S, order) ELSE args, envs)

\* upgradeAll (cmd/upgrade/upgrade.go): backplane-tools itself is looked at
\* first (selfErr: its versions cannot be determined), then the tools that
\* are installed are handed to upgradeTools
upgradeAll(S, order, envs, selfErr) ==
    IF selfErr THEN CmdRet(S, "self", FALSE, <<>>, <<>>, {})
    ELSE upgradeTools(S, ListInstalled(S, order), envs)

\* the loop of tools.Remove: an error is printed and the loop goes on; ok is
\* the set of tools reported as successfully removed
RECURSIVE RemoveLoop(_, _, _)
RemoveLoop(S, tools, fault) ==
    IF tools = <<>> THEN [S |-> S, ok |-> {}]
    ELSE Only({Only({[S |-> rest.S,
                      ok |-> IF r.err = NoErr
                             THEN rest.ok \cup {Head(tools)} ELSE rest.ok \ {Head(tools)}]
                     : rest \in {RemoveLoop(r.S, Tail(tools), fault)}})
               : r \in {Remove(S, Head(tools), fault)}})

\* tools.RemoveInstallDir: os.RemoveAll of the root install directory, the
\* links of latest/ with it
RemoveInstallDir(S, fault) ==
    IF fault = "rmall" THEN [S |-> S, err |-> "rmall"]
    ELSE [S |-> [S EXCEPT !.files = RemoveAll(@, InstallDir),
                          !.links = [n \in ExeNames |-> NoLink]],
          err |-> NoErr]

\* a remove command that treats "all" as the list of the registered tools
CmdRemoveEach(S, args, order, fault) ==
    IF args = <<>> THEN CmdRet(S, NoErr, FALSE, args, <<>>, {})
    ELSE IF "all" \in SeqRange(args)
    THEN Only({CmdRet(r.S, NoErr, TRUE, args, order, r.ok) : r \in {RemoveLoop(S, order, fault)}})
    ELSE Only({CmdRet(r.S, NoErr, TRUE, args, args, r.ok) : r \in {RemoveLoop(S, args, fault)}})

\* remove.Remove(args): nothing without arguments, the whole root install
\* directory for "all", else tools.Remove of the tools named
CmdRemove(S, args, order, fault) ==
    IF args = <<>> THEN CmdRet(S, NoErr, FALSE, args, <<>>, {})
    ELSE IF "all" \in SeqRange(args)
    THEN Only({CmdRet(r.S, r.err, FALSE, args, <<>>, {}) : r \in {RemoveInstallDir(S, fault)}})
    ELSE Only({CmdRet(r.S, NoErr, TRUE, args, args, r.ok) : r \in {RemoveLoop(S, args, fault)}})

\* nothing is installed yet and two tools are registered
InitCmd ==
    /\ files = {}
    /\ links = [n \in ExeNames |-> NoLink]
    /\ latestVersion = EmptyMemo
    /\ installedVersion = EmptyMemo
    /\ toolMap \in {{"rosa", "aws"}, {"ocm", "osdctl"}}
    /\ last = Outcome("init", "", NoErr, "", "", "")

\* the preceding command was a successful remove all
AfterRemoveAll ==
    last.op = "CmdRemove" /\ "all" \in SeqRange(last.args) /\ last.err = NoErr

\* a command ran in a fresh process and the process ended; stage records
\* whether it ran right after a successful remove all
CommitCmd(op, r, envs) ==
    /\ files' = r.S.files
    /\ links' = r.S.links
    /\ last' = [Outcome(op, "", r.err, IF AfterRemoveAll THEN "after remove all" ELSE "",
                        "", "") EXCEPT
                    !.args = r.list, !.passed = r.passed, !.ok = r.ok, !.called = r.called,
                    !.tags = [t \in toolMap |-> IF envs[t].reach THEN envs[t].tag ELSE NoAnswer]]
    /\ UNCHANGED <<latestVersion, installedVersion, toolMap>>

RunInstall ==
    \E args \in ArgLists(toolMap), envs \in CmdAnswers(toolMap) :
        \E order \in OrdersFor(args, toolMap) :
        \E r \in {CmdInstall(St(files, links, EmptyMemo, EmptyMemo), args, order, envs)} :
            CommitCmd("CmdInstall", r, envs)

RunUpgradeTools ==
    \E args \in ArgLists(toolMap) \ {<<"all">>}, envs \in CmdAnswers(toolMap) :
        \E r \in {upgradeTools(St(files, links, EmptyMemo, EmptyMemo), args, envs)} :
            CommitCmd("upgradeTools", r, envs)

\* upgrade all, or upgrade without arguments
RunUpgradeAll ==
    \E selfErr \in BOOLEAN, envs \in CmdAnswers(toolMap), order \in Orders(toolMap) :
        \E r \in {upgradeAll(St(files, links, EmptyMemo, EmptyMemo), order, envs, selfErr)} :
            CommitCmd("upgradeAll", r, envs)

RunUpgrade ==
    \E args \in ArgLists(toolMap), envs \in CmdAnswers(toolMap) :
        \E order \in OrdersFor(args, toolMap) :
        \E r \in {Upgrade(St(files, links, EmptyMemo, EmptyMemo), args, order, envs)} :
            CommitCmd("Upgrade", r, envs)

\* the remove command; val records the filesystem call made to fail, if any
RunRemove ==
    \E args \in ArgLists(toolMap), fault \in {"none", "rmall", "unlink"} :
        \E order \in OrdersFor(args, toolMap) :
        \E r \in {CmdRemove(St(files, links, EmptyMemo, EmptyMemo), args, order, fault)} :
            /\ files' = r.S.files
            /\ links' = r.S.links
            /\ last' = [Outcome("CmdRemove", "", r.err, "", "", fault) EXCEPT
                            !.args = r.list, !.passed = r.passed, !.ok = r.ok,
                            !.called = r.called]
            /\ UNCHANGED <<latestVersion, installedVersion, toolMap>>

\* tools.Install called with a list of registered tools in any order; args
\* is the list, passed the tools in the order their Install was started, ok
\* the tools installed, tags the tools that failed (in the order of passed),
\* val the directory creation made to fail, if any
CallToolsInstall ==
    \E list \in ArgLists(toolMap) \ {<<"all">>}, envs \in CmdAnswers(toolMap),
       fault \in {"none", "mkdir root", "mkdir latest"} :
        \E r \in {ToolsInstallOrFail(St(files, links, EmptyMemo, EmptyMemo), list, envs, fault)} :
            /\ files' = r.S.files
            /\ links' = r.S.links
            /\ last' = [Outcome("ToolsInstall", "", r.err, "", "", fault) EXCEPT
                            !.args = list, !.passed = r.log, !.ok = r.ok,
                            !.tags = SelectSeq(r.log, LAMBDA t : t \in r.failed),
                            !.called = TRUE]
            /\ UNCHANGED <<latestVersion, installedVersion, toolMap>>

\* the install command with sources that may change while it runs; tags
\* records the versions the command determined and printed
RunInstallAt ==
    \E args \in ArgLists(toolMap), envsLv \in CmdAnswers(toolMap), envsIn \in CmdAnswers(toolMap) :
        \E order \in OrdersFor(args, toolMap) :
        \E r \in {CmdInstallAt(St(files, links, EmptyMemo, EmptyMemo), args, order,
                                envsLv, envsIn)} :
            CommitCmd("CmdInstallAt", r, envsLv)

NextAt == RunInstallAt

SpecAt == InitCmd /\ [][NextAt]_vars

NextBatch == CallToolsInstall \/ RunRemove

SpecBatch == InitCmd /\ [][NextBatch]_vars

NextCmd ==
    \/ RunInstall
    \/ RunUpgradeTools
    \/ RunUpgradeAll
    \/ RunUpgrade

SpecCmd == InitCmd /\ [][NextCmd]_vars

\* the install and remove commands in any order
NextRm ==
    \/ RunInstall
    \/ RunRemove

SpecRm == InitCmd /\ [][NextRm]_vars

-----------------------------------------------------------------------------
(* upgrade all with backplane-tools itself installed: the self tool of     *)
(* package self, upgradeSelfIfNecessary and rerunUpgradeAll of             *)
(* cmd/upgrade/upgrade.go.  A command run is a chain of processes: a       *)
(* process that upgraded backplane-tools runs the command again and waits. *)

MaxReruns == 3          \* most re-executions of one command run that are followed

SelfArchive == "backplane-tools_linux_amd64.tar.gz"
SelfAssets == <<"checksums.txt", SelfArchive, "backplane-tools_darwin_amd64.tar.gz">>

\* the loop of self's Install over the assets of the release
RECURSIVE SelfScan(_, _, _)
SelfScan(assets, checksumAsset, backplaneArchiveAsset) ==
    IF assets = <<>>
    THEN [ok |-> backplaneArchiveAsset # "" /\ checksumAsset # "",
          bin |-> backplaneArchiveAsset, sum |-> checksumAsset]
    ELSE IF Contains(Head(assets), "checksums.txt")
         THEN IF checksumAsset # "" THEN [ok |-> FALSE, bin |-> "", sum |-> ""]
              ELSE SelfScan(Tail(assets), Head(assets), backplaneArchiveAsset)
    ELSE IF ~Contains(Head(assets), GOARCH)
         THEN SelfScan(Tail(assets), checksumAsset, backplaneArchiveAsset)
    ELSE IF ~Contains(ToLower(Head(assets)), GOOS)
         THEN SelfScan(Tail(assets), checksumAsset, backplaneArchiveAsset)
    ELSE IF backplaneArchiveAsset # "" THEN [ok |-> FALSE, bin |-> "", sum |-> ""]
    ELSE SelfScan(Tail(assets), checksumAsset, Head(assets))

\* utils.Unarchive: every entry of the bundle is created below the destination
Unarchive(fs, entries, destination, gzipFault) ==
    IF gzipFault THEN [files |-> fs, err |-> TRUE]
    ELSE [files |-> fs \cup {Clean(destination \o e) : e \in entries}, err |-> FALSE]

\* self's Tool.Install
SelfInstall(S, env) ==
    LET sel == SelfScan(env.assets, "", "") IN
    IF ~env.reach THEN Ret(S, "fetch", "")
    ELSE IF ~sel.ok THEN Ret(S, "select", env.tag)
    ELSE
    LET versionedDir == Join(ToolDir(SelfName), env.tag) IN
    IF env.fault = "mkdir" THEN Ret(S, "mkdir", env.tag)
    ELSE
    LET dl == DownloadReleaseAssets(MkdirAll(S.files, versionedDir),
                                    <<sel.sum, sel.bin>>, versionedDir, env.got)
        S1 == [S EXCEPT !.files = dl.files]
        un == Unarchive(S1.files, env.entries, versionedDir, env.fault = "unarchive")
        S2 == [S1 EXCEPT !.files = un.files]
    IN
    IF dl.err THEN Ret(S1, "download", env.tag)
    ELSE IF RosaVerify(env.sumfile, sel.bin, env.content) # NoErr
         THEN Ret(S1, "verify", env.tag)
    ELSE IF un.err THEN Ret(S2, "unarchive", env.tag)
    ELSE Relink(S2, SymlinkPath(SelfName), Join(versionedDir, SelfName),
                env.fault = "unlink", env.fault = "symlink", env.tag)

\* a release of backplane-tools that installs, and the ways it may not
SelfGoodEnv(v) ==
    [reach |-> TRUE, tag |-> v, assets |-> SelfAssets,
     got |-> {SelfArchive, "checksums.txt"}, content |-> "c1",
     sumfile |-> <<<<Sha256sum("c1"), SelfArchive>>>>,
     entries |-> {<<SelfName>>}, fault |-> "none"]

SelfEnvs ==
    UNION {{SelfGoodEnv(v),
            [SelfGoodEnv(v) EXCEPT !.reach = FALSE],
            [SelfGoodEnv(v) EXCEPT !.got = {"checksums.txt"}],
            [SelfGoodEnv(v) EXCEPT !.content = "c2"],
            [SelfGoodEnv(v) EXCEPT !.fault = "unarchive"],
            [SelfGoodEnv(v) EXCEPT !.fault = "symlink"]} : v \in Versions}

\* upgradeSelfIfNecessary: the result of tools.Install, which is nil whether
\* or not the Install of backplane-tools failed, decides on upgraded
upgradeSelfIfNecessary(S, env) ==
    IF ~env.reach THEN [S |-> S, upgraded |-> FALSE, err |-> "latestversion"]
    ELSE IF ~EvalSymlinksOk(S.files, S.links, SymlinkPath(SelfName))
    THEN [S |-> S, upgraded |-> FALSE, err |-> "installedversion"]
    ELSE IF S.links[SymlinkPath(SelfName)][2] = env.tag
    THEN [S |-> S, upgraded |-> FALSE, err |-> NoErr]
    ELSE Only({[S |-> r.S, upgraded |-> TRUE, err |-> NoErr]
               : r \in {SelfInstall([S EXCEPT !.files = createLatestDir(createInstallDir(@))],
                                    env)}})

\* upgradeAll in one process with only backplane-tools registered: after a
\* self-upgrade the command is to be run again; otherwise the installed
\* tools are upgraded, and backplane-tools, the only one, is at the latest
\* version, so tools.Install is called with an empty list
upgradeAllOnce(S, env) ==
    Only({IF r.err # NoErr THEN [S |-> r.S, rerun |-> FALSE, err |-> r.err]
          ELSE IF r.upgraded THEN [S |-> r.S, rerun |-> TRUE, err |-> NoErr]
          ELSE [S |-> [r.S EXCEPT !.files = createLatestDir(createInstallDir(@))],
                rerun |-> FALSE, err |-> NoErr]
          : r \in {upgradeSelfIfNecessary(S, env)}})

\* backplane-tools is installed at the first version
InitSelf ==
    /\ files = MkdirAll({LatestDir}, <<SelfName, VersionNames[1], SelfName>>)
    /\ links = [n \in ExeNames |-> IF n = SelfName
                                    THEN <<SelfName, VersionNames[1], SelfName>> ELSE NoLink]
    /\ latestVersion = EmptyMemo
    /\ installedVersion = EmptyMemo
    /\ toolMap = {SelfName}
    /\ last = Outcome("init", SelfName, NoErr, "returned", "", "")

\* one process of the chain ran upgradeAll; stage tells whether the command
\* is to be run again ("rerun") or the chain has returned, nbin counts the
\* re-executions of this command run
UpgradeAllStep(op, n) ==
    \E env \in SelfEnvs :
        \E r \in {upgradeAllOnce(St(files, links, EmptyMemo, EmptyMemo), env)} :
            /\ files' = r.S.files
            /\ links' = r.S.links
            /\ last' = [Outcome(op, SelfName, r.err, IF r.rerun THEN "rerun" ELSE "returned",
                                 env.tag, "") EXCEPT !.nbin = n]
            /\ UNCHANGED <<latestVersion, installedVersion, toolMap>>

\* the user runs 'upgrade all'
StartUpgradeAll ==
    /\ last.stage = "returned"
    /\ UpgradeAllStep("upgradeAll", 0)

\* rerunUpgradeAll: the command is run again in a new process
rerunUpgradeAll ==
    /\ last.stage = "rerun"
    /\ last.nbin < MaxReruns
    /\ UpgradeAllStep("rerunUpgradeAll", last.nbin + 1)

NextSelf == StartUpgradeAll \/ rerunUpgradeAll

SpecSelf == InitSelf /\ [][NextSelf]_vars

-----------------------------------------------------------------------------
(* Properties of the Install and Remove methods, of specification Spec *)

\* the tools whose installer selects assets of a release
AssetTools == {t \in Tools : AssetPool(t) # <<>>}

\* the version directories that exist: <root>/<tool>/<tag>
VersionDirs(fs) == {p \in fs : Len(p) = 2 /\ p[1] \in Tools /\ p[2] \in Versions}

\* C1: when the verify step of an Install fails (digest mismatch, malformed
\* checksum file, no checksum line for the asset), latest/<executableName> is
\* after the call exactly what it was before it: absent, or the same link.
C1_VerifyFailureKeepsLatest ==
    [][(last'.op = "Install" /\ last'.stage \in {"verify", "skip"})
        => links'[SymlinkPath(last'.tool)] = links[SymlinkPath(last'.tool)]]_vars

\* a verify step failed for a release other than the linked one, and the
\* link to the previously installed version is in place
C1_Witness ==
    /\ last.op = "Install"
    /\ last.stage \in {"verify", "skip"}
    /\ links[SymlinkPath(last.tool)] # NoLink
    /\ links[SymlinkPath(last.tool)][2] # last.tag
    /\ Join(ToolDir(last.tool), last.tag) \in files

\* C2: whenever an Install returns without error, having linked the release
\* it fetched, latest/<executableName> is a link that resolves to an existing
\* file inside <root>/<tool>/<tag>/ of that release.
C2_SuccessLinksExistingFile ==
    (last.op = "Install" /\ last.err = NoErr /\ last.stage = "done") =>
        LET target == links[SymlinkPath(last.tool)] IN
        /\ target # NoLink
        /\ target \in files
        /\ Len(target) > Len(Join(ToolDir(last.tool), last.tag))
        /\ IsPrefix(Join(ToolDir(last.tool), last.tag), target)

\* C3: when an Install returns an error, the link that existed before the
\* call still exists, has the same target, and the target still exists.
C3_FailedInstallKeepsPriorState ==
    [][(last'.op = "Install" /\ last'.err # NoErr /\ links[SymlinkPath(last'.tool)] # NoLink)
        => /\ links'[SymlinkPath(last'.tool)] = links[SymlinkPath(last'.tool)]
           /\ (links[SymlinkPath(last'.tool)] \in files
                 => links[SymlinkPath(last'.tool)] \in files')]_vars

\* C6: no Install deletes or empties a version directory that exists, also
\* when the source reports an empty version.
C6_InstallKeepsVersionDirs ==
    [][last'.op = "Install"
        => \A d \in VersionDirs(files) :
              /\ d \in files'
              /\ (\E q \in files : q # d /\ IsPrefix(d, q))
                    => (\E q \in files' : q # d /\ IsPrefix(d, q))]_vars

\* C7: when the release has zero or several primary assets for this system,
\* or zero or several checksum assets, Install returns an error and nothing
\* under the root install directory is created or changed.
C7_AmbiguousAssetsChangeNothing ==
    [][(last'.op = "Install" /\ last'.tool \in AssetTools /\ last'.stage # "fetch"
            /\ (last'.nbin # 1 \/ last'.nsum # 1))
        => last'.err # NoErr /\ files' = files /\ links' = links]_vars

\* several primary assets matched while an earlier install is in place
C7_Witness ==
    /\ last.op = "Install"
    /\ last.tool \in AssetTools
    /\ last.stage # "fetch"
    /\ last.nbin > 1
    /\ last.nsum = 1
    /\ links[SymlinkPath(last.tool)] # NoLink

\* C8: an Install of the version that the preceding successful Install of
\* the same tool installed wipes nothing of what is there, and when it
\* succeeds it leaves latest/<executableName> with the same target.
C8_ReinstallReusesVersionDir ==
    [][(/\ last.op = "Install" /\ last.stage = "done"
        /\ last'.op = "Install" /\ last'.tool = last.tool
        /\ last'.stage # "fetch" /\ last'.tag = last.tag)
        => /\ files \subseteq files'
           /\ (last'.err = NoErr
                 => links'[SymlinkPath(last'.tool)] = links[SymlinkPath(last'.tool)])]_vars

\* C12: a Remove during which no filesystem call fails for another reason
\* returns no error when the tool's directory or latest/<executableName> is
\* already absent; so the second of two Removes in a row succeeds.
C12_RemoveOfAbsentSucceeds ==
    [][(/\ last'.op = "Remove" /\ last'.val = "none"
        /\ (ToolDir(last'.tool) \notin files \/ links[SymlinkPath(last'.tool)] = NoLink))
        => last'.err = NoErr]_vars

\* C15: whatever the downloaded release contains, everything that install
\* and remove create or change lies in the root install directory: no path
\* outside of it comes into existence.
C15_ChangesConfinedToRoot == \A p \in files : ~Outside(p)

\* C30: after a Remove of a tool that returns without error no entry of
\* latest/ points into the directory of that tool, for every registered
\* tool, aws with its aws_completer link included.
C30_RemoveLeavesNoDanglingLink ==
    (last.op = "Remove" /\ last.err = NoErr) =>
        \A n \in ExeNames : links[n] = NoLink \/ ~IsPrefix(ToolDir(last.tool), links[n])

\* C26: after any sequence of installs and removes a tool is reported as
\* installed only if its link in latest/ exists and resolves, so the
\* InstalledVersion of every tool that ListInstalled returns is read without
\* error by a list command, which runs in a process of its own.
C26_ListedToolsHaveAVersion ==
    \A t \in toolMap :
        Installed(Cur, t) =>
            /\ EvalSymlinksOk(files, links, SymlinkPath(t))
            /\ InstalledVersion(St(files, links, EmptyMemo, EmptyMemo), t).err = NoErr

-----------------------------------------------------------------------------
(* Properties of the version queries, of specification SpecVer *)

\* C9: InstalledVersion returns "not installed" without an error when
\* latest/<executableName> is absent, and returns an error only when the
\* link exists but is broken.
C9_NotInstalledIsNoError ==
    last.op = "InstalledVersion" =>
        /\ links[SymlinkPath(last.tool)] = NoLink => last.err = NoErr
        /\ last.err # NoErr =>
              links[SymlinkPath(last.tool)] # NoLink /\ links[SymlinkPath(last.tool)] \notin files

\* C29: an InstalledVersion that returns without error returns the version
\* directory that latest/<executableName> points into at that moment, also
\* after an Install or a Remove of the tool earlier in the same process.
C29_InstalledVersionFollowsLink ==
    (last.op = "InstalledVersion" /\ last.err = NoErr) =>
        /\ links[SymlinkPath(last.tool)] # NoLink
        /\ last.val = links[SymlinkPath(last.tool)][2]

-----------------------------------------------------------------------------
(* Properties of the commands, of specification SpecCmd *)

\* both versions of the tool can be determined: the source answers and the
\* link resolves
Determinable(fs, lk, tags, t) ==
    tags[t] # NoAnswer /\ EvalSymlinksOk(fs, lk, SymlinkPath(t))

\* the tool is installed, and with another version than the latest one
Outdated(fs, lk, tags, t) ==
    Determinable(fs, lk, tags, t) /\ lk[SymlinkPath(t)][2] # tags[t]

\* what exists below the tool's directory
Subtree(fs, t) == {q \in fs : IsPrefix(ToolDir(t), q)}

\* C4: when install runs for several tools and the source of one is
\* unreachable, every other requested tool is installed and linked, and
\* only the unreachable tool is reported as failed.
C4_InstallIsolatesUnreachableSource ==
    last.op = "CmdInstall" =>
        \A t \in SeqRange(last.args) :
            IF last.tags[t] = NoAnswer
            THEN t \notin last.ok
            ELSE /\ t \in last.ok
                 /\ links[SymlinkPath(t)] # NoLink
                 /\ links[SymlinkPath(t)][2] = last.tags[t]

\* C5: during an upgrade a tool whose latest or installed version cannot be
\* determined does not stop the run: every listed tool that is installed
\* with another version than its latest one is installed at the latest one.
C5_UpgradeSkipsUndeterminedTool ==
    [][last'.op \in {"upgradeTools", "Upgrade"} =>
        \A t \in SeqRange(last'.args) :
            Outdated(files, links, last'.tags, t) =>
                /\ t \in SeqRange(last'.passed)
                /\ t \in last'.ok
                /\ links'[SymlinkPath(t)] # NoLink
                /\ links'[SymlinkPath(t)][2] = last'.tags[t]]_vars

\* C10: an upgrade passes to the installer exactly the listed tools whose
\* installed version differs from the latest one; for a tool whose two
\* versions are equal nothing under the root install directory changes.
C10_UpgradePassesExactlyOutdated ==
    [][last'.op \in {"upgradeTools", "Upgrade"} =>
        /\ SeqRange(last'.passed) =
              {t \in SeqRange(last'.args) : Outdated(files, links, last'.tags, t)}
        /\ \A t \in SeqRange(last'.args) :
              (Determinable(files, links, last'.tags, t) /\ ~Outdated(files, links, last'.tags, t))
                 => /\ links'[SymlinkPath(t)] = links[SymlinkPath(t)]
                    /\ Subtree(files', t) = Subtree(files, t)]_vars

\* C11: 'upgrade all' has the effect of 'install all': when it completes
\* and every source answered, every registered tool is installed and linked,
\* the tools that were not installed before included.
C11_UpgradeAllInstallsEverything ==
    (/\ last.op = "upgradeAll" /\ last.err = NoErr
     /\ \A t \in toolMap : last.tags[t] # NoAnswer)
        => \A t \in toolMap :
              /\ Installed(Cur, t)
              /\ links[SymlinkPath(t)] # NoLink

-----------------------------------------------------------------------------
(* Properties of the remove command, of specification SpecRm *)

\* C13: removing tools changes nothing outside them: the directory tree of
\* every tool that is not named, every entry of latest/ that is not the
\* link of a named tool, and the root and latest directories are the same
\* after the command as before.
C13_RemoveTouchesOnlyItsTool ==
    [][(last'.op = "CmdRemove" /\ "all" \notin SeqRange(last'.args))
        => /\ \A u \in Tools \ SeqRange(last'.args) : Subtree(files', u) = Subtree(files, u)
           /\ \A n \in ExeNames \ {SymlinkPath(t) : t \in SeqRange(last'.args)} :
                 links'[n] = links[n]
           /\ \A d \in {InstallDir, LatestDir} : d \in files' <=> d \in files]_vars

\* one of two installed tools was removed and the other is still installed
\* and linked
C13_Witness ==
    /\ last.op = "CmdRemove"
    /\ Len(last.args) = 1
    /\ last.args[1] \in last.ok
    /\ \E u \in toolMap \ SeqRange(last.args) :
          /\ links[SymlinkPath(u)] # NoLink
          /\ links[SymlinkPath(u)] \in files

\* C14: remove with "all" among its arguments deletes the whole root install
\* directory in one recursive delete and removes no tool on its own; an
\* install that follows, with every source answering, recreates the root
\* and latest directories and installs every tool it lists.
C14_RemoveAllThenInstall ==
    [][/\ (last'.op = "CmdRemove" /\ "all" \in SeqRange(last'.args) /\ last'.err = NoErr)
            => /\ files' = {}
               /\ \A n \in ExeNames : links'[n] = NoLink
               /\ ~last'.called
       /\ (/\ AfterRemoveAll
           /\ last'.op = "CmdInstall"
           /\ \A t \in SeqRange(last'.args) : last'.tags[t] # NoAnswer)
            => /\ last'.err = NoErr
               /\ InstallDir \in files' /\ LatestDir \in files'
               /\ last'.ok = SeqRange(last'.args)
               /\ \A t \in SeqRange(last'.args) : links'[SymlinkPath(t)] # NoLink]_vars

\* tools were installed, everything was removed with "all", and the install
\* that followed brought a tool back
C14_Witness ==
    /\ last.op = "CmdInstall"
    /\ last.ok # {}
    /\ last.stage = "after remove all"

-----------------------------------------------------------------------------
(* Properties of the earlier aws-cli tool, of specification SpecOld *)

\* C16: after any install or remove, every latest/<executableName> is
\* absent or a symlink whose target lies inside a directory
\* <root>/<tool>/<version>/; it is never a regular file.
C16_LatestHoldsOnlyVersionLinks ==
    /\ \A n \in ExeNames \cup {OldAws} : LatestFile(n) \notin files
    /\ \A n \in ExeNames :
          links[n] # NoLink =>
              Len(links[n]) > 2 /\ links[n][1] \in Tools /\ links[n][2] \in Versions

-----------------------------------------------------------------------------
(* Properties of DownloadReleaseAssets, of specification SpecDl *)

\* C17: DownloadReleaseAssets attempts every asset it is given, also after
\* an earlier one failed: exactly the requested assets that exist are
\* written to the directory, and an error is returned, joining every
\* failure, if and only if at least one asset failed.
C17_DownloadAttemptsEveryAsset ==
    last.op = "DownloadReleaseAssets" =>
        /\ \A a \in SeqRange(last.args) : Join(DlDir, a) \in files <=> a \in last.ok
        /\ last.err # NoErr <=> \E a \in SeqRange(last.args) : a \notin last.ok
        /\ SeqRange(last.passed) = {a \in SeqRange(last.args) : a \notin last.ok}

\* an asset failed and an asset asked for after it was written
C17_Witness ==
    /\ last.op = "DownloadReleaseAssets"
    /\ last.err # NoErr
    /\ \E i, j \in 1..Len(last.args) :
          /\ i < j
          /\ last.args[i] \notin last.ok
          /\ Join(DlDir, last.args[j]) \in files

-----------------------------------------------------------------------------
(* Properties of the verify step, of specification SpecSum *)

\* the lines of the checksum file whose name field is exactly the key
C18_ExactLines(file, key) == {i \in 1..Len(file) : Len(file[i]) = 2 /\ file[i][2] = key}

\* strings.ToLower of a hex digest
C19_HexLower(d) == IF d = "AA11" THEN "aa11" ELSE d

\* C18: verification takes the expected digest from the first line whose
\* name field is exactly the name of the primary asset, never from a line
\* whose name contains, extends or pattern-matches it, and passes if and only
\* if that digest is the SHA-256 of the downloaded file.
C18_ChecksumLineOfExactName ==
    last.op = "Verify" =>
        LET exact == C18_ExactLines(last.args, last.tag) IN
        last.err = NoErr <=>
            /\ exact # {}
            /\ last.args[CHOOSE i \in exact : \A j \in exact : i <= j][1] = Sha256sum(last.val)

\* C19: the expected and the computed digest are compared without regard to
\* case: a checksum file whose line for the asset lists the digest of the
\* downloaded file in upper-case hex verifies.
C19_DigestComparedCaseInsensitively ==
    (/\ last.op = "Verify"
     /\ Len(last.args) = 1
     /\ last.args[1][2] = last.tag
     /\ C19_HexLower(last.args[1][1]) = C19_HexLower(Sha256sum(last.val)))
        => last.err = NoErr

-----------------------------------------------------------------------------
(* Properties of the asset search, of specification SpecFind *)

\* the name, in lower case, holds one of the names of the host's architecture
C20_MatchesArch(a) == Terms(ToLower(a)) \cap GetArchAliases # {}

\* the name, in lower case, holds one of the names of the host's OS
C20_MatchesOS(a) == Terms(ToLower(a)) \cap GetOSAliases # {}

C20_Both(a) == C20_MatchesArch(a) /\ C20_MatchesOS(a)

C20_WidgetRelease == <<"widget-linux-amd64", "widget-linux-amd64.sha256",
                       "widget-darwin-amd64", "widget-darwin-amd64.sha256">>

\* C20: FindAssetsForArchAndOS returns exactly the assets, in input order,
\* whose name matches both the host architecture and the host OS; from the
\* release widget-linux-amd64, widget-linux-amd64.sha256, widget-darwin-amd64,
\* widget-darwin-amd64.sha256 on linux/amd64 the installer selects
\* widget-linux-amd64 as primary and widget-linux-amd64.sha256 as checksum.
C20_ArchAndOSBothMatch ==
    last.op = "FindAssetsForArchAndOS" =>
        /\ last.tags = SelectSeq(last.args, C20_Both)
        /\ last.args = C20_WidgetRelease =>
              /\ last.err = NoErr
              /\ last.tag = "widget-linux-amd64"
              /\ last.val = "widget-linux-amd64.sha256"

\* the search has run on the widget release, which holds assets matching the
\* architecture only, and has kept some and dropped some
C20_Witness ==
    /\ last.op = "FindAssetsForArchAndOS"
    /\ last.args = C20_WidgetRelease
    /\ last.tags = <<"widget-linux-amd64", "widget-linux-amd64.sha256">>

-----------------------------------------------------------------------------
(* Properties of the OS and architecture search, of specification SpecHost *)

\* the name, whatever its case, holds the word
C21_Holds(a, word) == word \in Terms(ToLower(a))

\* C21: the architecture and OS match is a case-insensitive substring test
\* that accepts aliases: on an amd64 host the names holding "amd64" and the
\* names holding "x86_64" are exactly the ones that match, on a darwin host
\* the names holding "darwin" and the names holding "mac", and on other
\* hosts the names holding the host's own name.
C21_MatchAcceptsAliases ==
    last.op = "FindAssetsForHost" =>
        LET ArchMatch(a) == IF last.val = "amd64"
                            THEN C21_Holds(a, "amd64") \/ C21_Holds(a, "x86_64")
                            ELSE C21_Holds(a, last.val)
            OSMatch(a) == IF last.tag = "darwin"
                          THEN C21_Holds(a, "darwin") \/ C21_Holds(a, "mac")
                          ELSE C21_Holds(a, last.tag)
        IN /\ last.passed = SelectSeq(last.args, ArchMatch)
           /\ last.tags = SelectSeq(last.args, OSMatch)

\* both searches have run on a darwin/amd64 host and have kept a name through
\* an alias and through a change of case
C21_Witness ==
    /\ last.op = "FindAssetsForHost"
    /\ last.tag = "darwin" /\ last.val = "amd64"
    /\ last.args = <<"Tool-Linux-X86_64", "Tool-MAC-arm64", "tool-mac">>
    /\ last.passed = <<"Tool-Linux-X86_64">>
    /\ last.tags = <<"Tool-MAC-arm64", "tool-mac">>

-----------------------------------------------------------------------------
(* Properties of the source queries, of specification SpecLv *)

\* C22: within one process a tool's LatestVersion does not query the source
\* again once a query has succeeded, and every later call returns the value
\* obtained first.
C22_LatestVersionQueriedOnce ==
    last.op = "LatestVersion" =>
        /\ last.nsum = 0
        /\ last.err = NoErr /\ last.called => last.val = last.tag

-----------------------------------------------------------------------------
(* Properties of the batch install, of specification SpecBatch *)

\* C23: a batch install starts the Install of its tools one after another
\* in the order of the list the caller gave, every tool once.
C23_BatchInstallsInCallerOrder ==
    (last.op = "ToolsInstall" /\ last.val = "none") => last.passed = last.args

\* a batch of two tools named against the order of their names has run
C23_Witness ==
    /\ last.op = "ToolsInstall"
    /\ last.val = "none"
    /\ Len(last.args) = 2
    /\ NameRank(last.args[1]) > NameRank(last.args[2])
    /\ last.passed = last.args

\* C24: when the root and the latest directory could be created, the batch
\* Install returns nil however many of its tools failed; it returns an error
\* only when one of the directories cannot be created, and then the Install
\* of no tool is started.
C24_BatchResultIgnoresToolFailures ==
    last.op = "ToolsInstall" =>
        /\ last.val = "none" => last.err = NoErr
        /\ last.err # NoErr =>
              /\ last.val \in {"mkdir root", "mkdir latest"}
              /\ last.passed = <<>>
              /\ last.ok = {}

\* a batch of two tools has run with the directories in place, both tools
\* have failed, and the batch has returned nil
C24_Witness ==
    /\ last.op = "ToolsInstall"
    /\ last.val = "none"
    /\ Len(last.args) = 2
    /\ last.tags = last.args
    /\ last.err = NoErr

-----------------------------------------------------------------------------
(* Properties of the registry, of specification SpecReg *)

\* C25: when two tools are registered under one name, building the registry
\* reports an error, and a name is never left with a later tool than the
\* first one registered under it.
C25_DuplicateNameIsAnError ==
    last.op = "initMap" =>
        /\ (\E i, j \in 1..Len(last.args) : i < j /\ last.args[i] = last.args[j])
              => last.err # NoErr
        /\ \A n \in DOMAIN last.tags :
              \A i \in 1..Len(last.args) : last.args[i] = n => last.tags[n] <= i

-----------------------------------------------------------------------------
(* Properties of the self-upgrade, of specification SpecSelf *)

\* C27: a run of 'upgrade all' re-executes itself at most once, also when
\* the Install of backplane-tools fails at every attempt.
C27_UpgradeAllRerunsAtMostOnce == last.nbin <= 1

-----------------------------------------------------------------------------
(* Properties of the install command with changing sources, of             *)
(* specification SpecAt                                                    *)

\* C28: within one command run every tool that the command installs is
\* installed at the latest version that the command determined and printed
\* for it beforehand.
C28_InstalledAtDeterminedVersion ==
    last.op = "CmdInstallAt" =>
        \A t \in last.ok :
            /\ links[SymlinkPath(t)] # NoLink
            /\ links[SymlinkPath(t)][2] = last.tags[t]

====
